---- MODULE Spec2Model ----
(***************************************************************************)
(* ModeloMan: request pipeline and policy enforcement engine.              *)
(*                                                                         *)
(* Text is modelled as a sequence of tokens: a token is either the blank   *)
(* " " or a non-blank word, so that strings.TrimSpace is a real operation  *)
(* and the empty string is the empty sequence <<>>.  Timestamps and the    *)
(* identifiers produced by newID are texts of one token per character.     *)
(* Enumerations (status, outcome, level, error codes, method names) are    *)
(* plain strings.                                                          *)
(***************************************************************************)
EXTENDS Integers, Sequences, FiniteSets, TLC

VARIABLES
    idempotency,  \* FileStore.idempotency : record key -> IdempotencyRecord
    tasks,        \* State.Tasks
    calls,        \* unary invocations passing through the idempotency interceptor
    nextId,       \* per prefix, the identifiers handed out by newID
    now,          \* the reading of the clock, in milliseconds
    policy,       \* State.Policy
    policyCaps,   \* State.PolicyCaps
    runs,         \* State.Runs
    attempts,     \* State.Attempts
    runEvents,    \* State.RunEvents
    last,         \* the last service call that returned: request and answer
    procs,        \* service calls in progress, one per concurrent caller
    auth,         \* AuthUnaryInterceptor's configuration: token, flag, key authenticator
    limiter,      \* TokenBucketRateLimiter: config and buckets
    passed,       \* the requests Allow has let through: identifier and time
    edge,         \* the last request seen by the outer interceptors and its answer
    pgIdempotency \* PostgresStore: the rows of the table idempotency_keys

\* The run engine's part of the store and the observation of its calls.
hubVars == <<policy, policyCaps, runs, attempts, runEvents, last, procs>>

\* The idempotency interceptor's part.
idemVars == <<idempotency, tasks, calls>>

\* The outer interceptors' part, and the Postgres idempotency table.
edgeVars == <<auth, limiter, passed, edge, pgIdempotency>>

vars == <<idempotency, tasks, calls, nextId, now, policy, policyCaps, runs, attempts,
          runEvents, last, procs, auth, limiter, passed, edge, pgIdempotency>>

----------------------------------------------------------------------------
(* Bounds *)

MaxCalls == 3

\* Concurrent callers of the run engine.
MaxProcs == 2

\* The clock takes MaxTime readings, a millisecond apart.
MaxTime == 2

\* Runs started, attempts stored and events stored in the run engine.
MaxRuns == 1
MaxAttempts == 2
MaxEvents == 1

\* FinishRun is called while every run's total_attempts is below MaxCounted.
MaxCounted == 2

\* Policy caps stored.
MaxCaps == 2

\* RecordPromptAttempt is called while fewer than MaxLogged dry-run events are stored.
MaxLogged == 1

\* Attempts stored before the leaderboard is asked for.
MaxBoard == 2

\* Tasks created, and tags in one request.
MaxTasks == 2
MaxTags == 2

----------------------------------------------------------------------------
(* Text helpers *)

Blank == " "

RECURSIVE TrimLeft(_)
TrimLeft(s) ==
    IF s = <<>> THEN <<>>
    ELSE IF Head(s) = Blank THEN TrimLeft(Tail(s)) ELSE s

RECURSIVE TrimRight(_)
TrimRight(s) ==
    IF s = <<>> THEN <<>>
    ELSE IF s[Len(s)] = Blank THEN TrimRight(SubSeq(s, 1, Len(s) - 1)) ELSE s

TrimSpace(s) == TrimRight(TrimLeft(s))

\* strings.Compare orders texts byte by byte.  Tokens lists the tokens of
\* the texts the model compares, in their order as strings.
Tokens ==
    <<" ", ".", "0", "1", "2", "3", "4", "5", "6", "7", "8", "9", "Z", "_", "a", "b",
      "c", "cap", "d", "e", "evt", "f", "m1", "m2", "none", "old", "pat", "run", "task",
      "v1", "v2", "v3", "v4", "v5", "wf", "wg", "wh">>

Rank(token) == CHOOSE k \in 1..Len(Tokens) : Tokens[k] = token

\* F(x), the value of x being worked out once.
Once(F(_), x) == CHOOSE r \in {F(v) : v \in {x}} : TRUE

\* The text x comes before the text y: at the first place where they
\* differ x has the lower token, or x ends there and y goes on.
LowerID(x, y) ==
    LET Lower(pair) ==
            LET differ == {k \in 1..Len(pair[1]) :
                              k > Len(pair[2]) \/ pair[1][k] # pair[2][k]}
            IN  IF differ = {} THEN Len(pair[1]) < Len(pair[2])
                ELSE \E k \in differ :
                        /\ \A j \in differ : k <= j
                        /\ k <= Len(pair[2])
                        /\ Rank(pair[1][k]) < Rank(pair[2][k])
    IN  Once(Lower, <<x, y>>)

\* strings.Compare
stringsCompare(a, b) == IF a = b THEN 0 ELSE IF LowerID(a, b) THEN -1 ELSE 1

----------------------------------------------------------------------------
(* Whole numbers of any size.  A natural number is the sequence of its     *)
(* digits to the base 2^15, lowest first and with no zero on top; an int64 *)
(* is a sign and a natural number.                                         *)

RECURSIVE Pow2(_)
Pow2(k) == IF k = 0 THEN 1 ELSE 2 * Pow2(k - 1)

RECURSIVE BitsOf(_)
BitsOf(k) == IF k = 0 THEN 0 ELSE 1 + BitsOf(k \div 2)

\* The bits of a digit, and the base of the digits, 2^15.
LimbBits == 15
LimbBase == 32768

RECURSIVE NatOf(_)
NatOf(k) == IF k = 0 THEN <<>> ELSE <<k % LimbBase>> \o NatOf(k \div LimbBase)

RECURSIVE TrimNat(_)
TrimNat(x) ==
    IF x # <<>> /\ x[Len(x)] = 0 THEN TrimNat(SubSeq(x, 1, Len(x) - 1)) ELSE x

Limb(x, i) == IF i <= Len(x) THEN x[i] ELSE 0

NatBits(x) == IF x = <<>> THEN 0 ELSE (Len(x) - 1) * LimbBits + BitsOf(x[Len(x)])

RECURSIVE NatCompareFrom(_, _, _)
NatCompareFrom(x, y, i) ==
    IF i = 0 THEN 0
    ELSE IF x[i] = y[i] THEN NatCompareFrom(x, y, i - 1)
    ELSE IF x[i] < y[i] THEN -1 ELSE 1

NatCompare(x, y) ==
    IF Len(x) # Len(y) THEN (IF Len(x) < Len(y) THEN -1 ELSE 1)
    ELSE NatCompareFrom(x, y, Len(x))

RECURSIVE NatPlusFrom(_, _, _, _)
NatPlusFrom(x, y, i, carry) ==
    IF i > Len(x) /\ i > Len(y) THEN NatOf(carry)
    ELSE LET v == Limb(x, i) + Limb(y, i) + carry
         IN  <<v % LimbBase>> \o NatPlusFrom(x, y, i + 1, v \div LimbBase)

NatPlus(x, y) == NatPlusFrom(x, y, 1, 0)

\* x - y for x >= y
RECURSIVE NatMinusFrom(_, _, _, _)
NatMinusFrom(x, y, i, borrow) ==
    IF i > Len(x) THEN <<>>
    ELSE LET v == x[i] - Limb(y, i) - borrow
         IN  <<IF v < 0 THEN v + LimbBase ELSE v>>
                 \o NatMinusFrom(x, y, i + 1, IF v < 0 THEN 1 ELSE 0)

NatMinus(x, y) == TrimNat(NatMinusFrom(x, y, 1, 0))

\* x * k for 0 <= k < 2^15
RECURSIVE NatTimesFrom(_, _, _, _)
NatTimesFrom(x, k, i, carry) ==
    IF i > Len(x) THEN NatOf(carry)
    ELSE LET v == x[i] * k + carry
         IN  <<v % LimbBase>> \o NatTimesFrom(x, k, i + 1, v \div LimbBase)

NatTimes(x, k) == TrimNat(NatTimesFrom(x, k, 1, 0))

\* Quotient and remainder of x by d, for 0 < d < 2^15.
RECURSIVE NatDivideFrom(_, _, _, _)
NatDivideFrom(x, d, i, r) ==
    IF i = 0 THEN [q |-> <<>>, r |-> r]
    ELSE LET v == r * LimbBase + x[i]
             rest == NatDivideFrom(x, d, i - 1, v % d)
         IN  [q |-> Append(rest.q, v \div d), r |-> rest.r]

NatDivide(x, d) ==
    LET a == NatDivideFrom(x, d, Len(x), 0) IN [q |-> TrimNat(a.q), r |-> a.r]

\* x * 2^s
NatShiftLeft(x, s) ==
    IF x = <<>> THEN <<>>
    ELSE [i \in 1..(s \div LimbBits) |-> 0] \o NatTimes(x, Pow2(s % LimbBits))

\* x div 2^s for s below the bits of x, and whether a one was shifted out.
NatShiftRight(x, s) ==
    LET limbs == s \div LimbBits
        a == NatDivide(SubSeq(x, limbs + 1, Len(x)), Pow2(s % LimbBits))
    IN  [q |-> a.q, sticky |-> a.r # 0 \/ \E i \in 1..limbs : x[i] # 0]

\* The int64 k.
Int64(k) == [neg |-> k < 0, m |-> NatOf(IF k < 0 THEN 0 - k ELSE k)]

\* The largest time.Duration, 2^63 - 1 nanoseconds, and the size of the
\* smallest, 2^63 nanoseconds.
maxDuration == <<32767, 32767, 32767, 32767, 7>>

minDuration == <<0, 0, 0, 0, 8>>

----------------------------------------------------------------------------
(* The clock.  A reading is a number of milliseconds; the instant it names *)
(* is a day of the calendar, a second of that day and a nanosecond of that *)
(* second.  A timestamp is the text time.Format writes for an instant: the *)
(* day in six digits, the second of the day in five, the fraction of the   *)
(* second and "Z", one token per character.  The punctuation of the date   *)
(* and of the time of day, the same in every timestamp, is left out.       *)

DigitTokens == <<"0", "1", "2", "3", "4", "5", "6", "7", "8", "9">>

HexTokens ==
    <<"0", "1", "2", "3", "4", "5", "6", "7", "8", "9", "a", "b", "c", "d", "e", "f">>

MsPerSecond == 1000
SecondsPerDay == 86400
MsPerDay == 86400000
NanosPerMs == 1000000
NanosPerSecond == 1000000000

\* The day of the calendar on which the reading 0 falls.
EpochDay == 740000

\* The reading of the clock when the process starts.
ClockStart == 1010

PowersOfTen == <<1, 10, 100, 1000, 10000, 100000, 1000000, 10000000, 100000000>>

\* The number n in decimal, width digits wide.
Digits(n, width) ==
    [k \in 1..width |-> DigitTokens[((n \div PowersOfTen[width - k + 1]) % 10) + 1]]

RECURSIVE TrimZeros(_)
TrimZeros(s) ==
    IF s # <<>> /\ s[Len(s)] = "0" THEN TrimZeros(SubSeq(s, 1, Len(s) - 1)) ELSE s

Instant(day, sec, nano) == [day |-> day, sec |-> sec, nano |-> nano]

\* time.Now().UTC() for the reading t.
InstantOf(t) ==
    Instant(EpochDay + (t \div MsPerDay), (t \div MsPerSecond) % SecondsPerDay,
            (t % MsPerSecond) * NanosPerMs)

\* Time.Format(time.RFC3339Nano): the fraction without its trailing zeros,
\* and no fraction at all for a whole second.
FormatRFC3339Nano(i) ==
    Digits(i.day, 6) \o Digits(i.sec, 5)
    \o (IF i.nano = 0 THEN <<>> ELSE <<".">> \o TrimZeros(Digits(i.nano, 9)))
    \o <<"Z">>

\* Time.Format("20060102T150405.000000000"): nine digits of fraction.
FormatIDStamp(i) == Digits(i.day, 6) \o Digits(i.sec, 5) \o <<".">> \o Digits(i.nano, 9)

IsDigits(s) == \A k \in 1..Len(s) : \E d \in 1..10 : DigitTokens[d] = s[k]

RECURSIVE NumberOf(_)
NumberOf(s) ==
    IF s = <<>> THEN 0
    ELSE 10 * NumberOf(SubSeq(s, 1, Len(s) - 1))
         + ((CHOOSE d \in 1..10 : DigitTokens[d] = s[Len(s)]) - 1)

RECURSIVE PadZeros(_, _)
PadZeros(s, width) == IF Len(s) >= width THEN s ELSE PadZeros(Append(s, "0"), width)

\* time.Parse(time.RFC3339Nano, text): the instant, or an error for a text
\* that is no timestamp.  The fraction follows a point or a comma, and of
\* its digits the first nine count.
ParseRFC3339Nano(text) ==
    LET n == Len(text)
        fraction == SubSeq(text, 12, n - 1)
        failed == [ok |-> FALSE, instant |-> Instant(0, 0, 0)]
    IN  IF n < 12 THEN failed
        ELSE IF text[n] # "Z" \/ ~IsDigits(SubSeq(text, 1, 11)) THEN failed
        ELSE IF NumberOf(SubSeq(text, 7, 11)) >= SecondsPerDay THEN failed
        ELSE IF fraction = <<>>
        THEN [ok |-> TRUE,
              instant |-> Instant(NumberOf(SubSeq(text, 1, 6)),
                                  NumberOf(SubSeq(text, 7, 11)), 0)]
        ELSE IF fraction[1] \notin {".", ","} \/ Len(fraction) < 2
                \/ ~IsDigits(Tail(fraction))
        THEN failed
        ELSE [ok |-> TRUE,
              instant |-> Instant(NumberOf(SubSeq(text, 1, 6)),
                                  NumberOf(SubSeq(text, 7, 11)),
                                  NumberOf(SubSeq(PadZeros(Tail(fraction), 9), 1, 9)))]

\* Time.Sub(...).Milliseconds(): the whole milliseconds from the instant a
\* to the instant b, an int64, rounded towards zero.  For instants further
\* apart than a Duration holds, Sub answers the largest Duration or the
\* smallest.
MillisecondsBetween(a, b) ==
    LET Earlier(x, y) ==
            \/ x.day < y.day
            \/ x.day = y.day /\ x.sec < y.sec
            \/ x.day = y.day /\ x.sec = y.sec /\ x.nano < y.nano
        Apart(lo, hi) ==
            LET Nanos(secs) ==
                    NatMinus(NatPlus(NatTimes(NatTimes(NatTimes(secs, 1000), 1000), 1000),
                                     NatOf(hi.nano)),
                             NatOf(lo.nano))
            IN  Once(Nanos, NatMinus(NatPlus(NatTimes(NatTimes(NatOf(hi.day - lo.day),
                                                               864), 100),
                                             NatOf(hi.sec)),
                                     NatOf(lo.sec)))
        Kept(ns, limit) == IF NatCompare(ns, limit) > 0 THEN limit ELSE ns
        Millis(ns) == NatDivide(NatDivide(ns, 1000).q, 1000).q
        Signed(pair) ==
            LET back == Earlier(pair[2], pair[1])
                Whole(ns) == Once(LAMBDA ms : [neg |-> back /\ ms # <<>>, m |-> ms],
                                  Millis(Kept(ns, IF back THEN minDuration
                                                  ELSE maxDuration)))
            IN  Once(Whole, IF back THEN Apart(pair[2], pair[1])
                            ELSE Apart(pair[1], pair[2]))
    IN  Once(Signed, <<a, b>>)

\* timeNow() for the reading t.
timeNowAt(t) == FormatRFC3339Nano(InstantOf(t))

timeNow == timeNowAt(now)

\* The reading of the clock in whole seconds.  The rate limiter and the key
\* authenticator are watched at readings whole seconds apart.
nowSeconds == now \div MsPerSecond

\* The empty timestamp.
NoTime == <<>>

----------------------------------------------------------------------------
(* Identifiers.  newID joins the prefix, the instant and eight random      *)
(* bytes in hexadecimal.  The model follows the draws whose last seven     *)
(* bytes are zero.  nextId holds, for every prefix, the readings and the   *)
(* first random bytes of the identifiers handed out, in the order they     *)
(* were handed out.                                                        *)

IDPrefixes == {"task", "run", "pat", "evt", "cap"}

RandomBytes == 0..255

\* raw, as rand.Read fills it with the first byte random.
RawBytes(random) == <<random, 0, 0, 0, 0, 0, 0, 0>>

\* hex.EncodeToString
hexEncode(raw) ==
    [k \in 1..(2 * Len(raw)) |->
        IF k % 2 = 1 THEN HexTokens[(raw[(k + 1) \div 2] \div 16) + 1]
        ELSE HexTokens[(raw[k \div 2] % 16) + 1]]

newID(prefix, t, random) ==
    <<prefix, "_">> \o FormatIDStamp(InstantOf(t)) \o <<"_">>
    \o hexEncode(RawBytes(random))

\* The random bytes of the identifiers handed out at the reading t.
Drawn(issued, t) == {issued[k].random : k \in {j \in 1..Len(issued) : issued[j].t = t}}

\* The random bytes newID is followed for: of the bytes that fall between
\* two neighbours among those already drawn at the reading t, or below or
\* above them all, one.  The order of an identifier among the identifiers
\* handed out is all its random bytes count for, and a byte drawn twice at
\* one instant has probability 2^-64 in the program.
RandomDraws(issued, t) ==
    LET marks == Drawn(issued, t) \cup {-1, 256}
    IN  {(gap[1] + gap[2]) \div 2 :
            gap \in {q \in marks \X marks :
                        /\ q[1] + 1 < q[2]
                        /\ \A z \in marks : ~(q[1] < z /\ z < q[2])}}

Issue(issued, t, random) == Append(issued, [t |-> t, random |-> random])

\* The n-th identifier handed out with the prefix; before it is handed out,
\* an identifier that no record has.
IssuedIDOf(issued, prefix, n) ==
    IF n <= Len(issued) THEN newID(prefix, issued[n].t, issued[n].random)
    ELSE <<prefix, "_", "none">>

IssuedID(prefix, n) == IssuedIDOf(nextId[prefix], prefix, n)

----------------------------------------------------------------------------
(* Error kinds (domain.ErrorCode) and the success marker *)

OK == "OK"
CodeInvalidArgument == "INVALID_ARGUMENT"
CodeNotFound == "NOT_FOUND"
CodeConflict == "CONFLICT"
CodeUnauthenticated == "UNAUTHENTICATED"
CodeFailedPrecondition == "FAILED_PRECONDITION"
CodeResourceExhausted == "RESOURCE_EXHAUSTED"
CodeInternal == "INTERNAL"

----------------------------------------------------------------------------
(* RPC contract *)

MethodCreateTask == "CreateTask"
MethodCreateNote == "CreateNote"
MethodListTasks == "ListTasks"

WriteMethods ==
    {"CreateTask", "UpdateTask", "DeleteTask", "CreateNote", "AppendChangelog",
     "RecordBenchmark", "StartRun", "FinishRun", "RecordPromptAttempt",
     "RecordRunEvent", "SetPolicy", "UpsertPolicyCap", "DeletePolicyCap"}

----------------------------------------------------------------------------
(* JSON encoding of object responses.  A JSON text is a sequence of        *)
(* tokens "{", one <<key, value>> member per field in sorted key order,    *)
(* and "}".  The empty text <<>> is what an uncompleted record holds.      *)

JSONKeyOrder ==
    <<"cap_id", "cap_name", "created_at", "details", "dry_run", "id", "model", "ok",
      "priority", "provider", "provider_type", "status", "tags", "title", "updated_at">>

RECURSIVE MarshalMembers(_, _)
MarshalMembers(obj, i) ==
    IF i > Len(JSONKeyOrder) THEN <<>>
    ELSE IF JSONKeyOrder[i] \in DOMAIN obj
         THEN <<<<JSONKeyOrder[i], obj[JSONKeyOrder[i]]>>>> \o MarshalMembers(obj, i + 1)
         ELSE MarshalMembers(obj, i + 1)

jsonMarshal(obj) == <<"{">> \o MarshalMembers(obj, 1) \o <<"}">>

JSONMembers(text) == SubSeq(text, 2, Len(text) - 1)

jsonUnmarshal(text) ==
    LET ms == JSONMembers(text)
    IN  [k \in {ms[i][1] : i \in 1..Len(ms)} |->
            LET i == CHOOSE j \in 1..Len(ms) : ms[j][1] = k IN ms[i][2]]

\* A response is either an object (structpb.Struct) or not an object.
IsStruct(response) == response.kind = "struct"

StructOf(fields) == [kind |-> "struct", fields |-> fields]

encodeIdempotentResponse(response) ==
    IF ~IsStruct(response)
    THEN [err |-> CodeInternal, text |-> <<>>]
    ELSE [err |-> OK, text |-> jsonMarshal(response.fields)]

decodeIdempotentResponse(responseJSON) ==
    IF TrimSpace(responseJSON) = <<>>
    THEN [err |-> CodeInternal, response |-> StructOf(<<>>)]
    ELSE [err |-> OK, response |-> StructOf(jsonUnmarshal(TrimSpace(responseJSON)))]

----------------------------------------------------------------------------
(* FileStore: idempotency records *)

fileIdempotencyRecordKey(method, idempotencyKey) == <<method, idempotencyKey>>

normalizeIdempotencyToken(value) == TrimSpace(value)

EmptyIdempotencyRecord == [RequestHash |-> <<>>, ResponseJSON |-> <<>>, Completed |-> FALSE]

\* Variant: no look-up of an existing record; the reservation is overwritten.
ReserveIdempotencyKey_Overwrites(store, method, idempotencyKey, requestHash) ==
    LET k == normalizeIdempotencyToken(idempotencyKey)
        key == fileIdempotencyRecordKey(method, k)
    IN  IF method = "" \/ k = <<>> \/ requestHash = <<>>
        THEN [store |-> store, record |-> EmptyIdempotencyRecord, created |-> FALSE,
              err |-> CodeInvalidArgument]
        ELSE [store |-> [x \in DOMAIN store \cup {key} |->
                            IF x = key
                            THEN [RequestHash |-> requestHash, ResponseJSON |-> <<>>,
                                  Completed |-> FALSE]
                            ELSE store[x]],
              record |-> EmptyIdempotencyRecord, created |-> TRUE, err |-> OK]

\* Returns the new map, the existing record, created and the error.
ReserveIdempotencyKey(store, method, idempotencyKey, requestHash) ==
    LET k == normalizeIdempotencyToken(idempotencyKey)
        key == fileIdempotencyRecordKey(method, k)
    IN  IF method = "" \/ k = <<>> \/ requestHash = <<>>
        THEN [store |-> store, record |-> EmptyIdempotencyRecord, created |-> FALSE,
              err |-> CodeInvalidArgument]
        ELSE IF key \in DOMAIN store
        THEN [store |-> store, record |-> store[key], created |-> FALSE, err |-> OK]
        ELSE [store |-> [x \in DOMAIN store \cup {key} |->
                            IF x = key
                            THEN [RequestHash |-> requestHash, ResponseJSON |-> <<>>,
                                  Completed |-> FALSE]
                            ELSE store[x]],
              record |-> EmptyIdempotencyRecord, created |-> TRUE, err |-> OK]

\* Variant: the response is stored but the record is not marked completed.
CompleteIdempotencyKey_KeepsInProgress(store, method, idempotencyKey, responseJSON) ==
    LET k == normalizeIdempotencyToken(idempotencyKey)
        key == fileIdempotencyRecordKey(method, k)
    IN  IF method = "" \/ k = <<>>
        THEN [store |-> store, err |-> CodeInvalidArgument]
        ELSE IF key \notin DOMAIN store
        THEN [store |-> store, err |-> CodeNotFound]
        ELSE [store |-> [store EXCEPT ![key] = [@ EXCEPT !.ResponseJSON = responseJSON]],
              err |-> OK]

CompleteIdempotencyKey(store, method, idempotencyKey, responseJSON) ==
    LET k == normalizeIdempotencyToken(idempotencyKey)
        key == fileIdempotencyRecordKey(method, k)
    IN  IF method = "" \/ k = <<>>
        THEN [store |-> store, err |-> CodeInvalidArgument]
        ELSE IF key \notin DOMAIN store
        THEN [store |-> store, err |-> CodeNotFound]
        ELSE [store |-> [store EXCEPT ![key] =
                            [@ EXCEPT !.ResponseJSON = responseJSON, !.Completed = TRUE]],
              err |-> OK]

\* Variant: the record is left in place.
ReleaseIdempotencyKey_Keeps(store, method, idempotencyKey) == store

ReleaseIdempotencyKey(store, method, idempotencyKey) ==
    LET k == normalizeIdempotencyToken(idempotencyKey)
        key == fileIdempotencyRecordKey(method, k)
    IN  IF method = "" \/ k = <<>> THEN store
        ELSE IF key \notin DOMAIN store THEN store
        ELSE IF store[key].Completed THEN store
        ELSE [x \in DOMAIN store \ {key} |-> store[x]]

----------------------------------------------------------------------------
(* Idempotency interceptor helpers *)

\* The payload field wins over the x-idempotency-key metadata header.
extractIdempotencyKey(req) ==
    IF TrimSpace(req.idempotency_key) # <<>>
    THEN TrimSpace(req.idempotency_key)
    ELSE TrimSpace(req.header_key)

\* The payload without its idempotency_key field.
SanitizedPayload(req) ==
    IF req.method = "DeleteTask" THEN [id |-> req.id]
    ELSE [title |-> req.title, status |-> req.status]

\* SHA-256 is taken to be collision free: the digest stands for its input.
idempotencyRequestHash(req) == <<"sha256", jsonMarshal(SanitizedPayload(req))>>

----------------------------------------------------------------------------
(* Domain records of the run engine.  Costs are counted in whole units.    *)

validProviderTypes == {<<"api">>, <<"subscription">>, <<"opensource">>}
validRunStatuses == {<<"running">>, <<"completed">>, <<"failed">>, <<"cancelled">>}
validAttemptOutcomes ==
    {<<"success">>, <<"failed">>, <<"timeout">>, <<"retryable_error">>, <<"tool_error">>}
validEventLevels == {<<"info">>, <<"warn">>, <<"error">>}

DefaultPolicy ==
    [KillSwitch |-> FALSE, KillSwitchReason |-> <<>>, MaxCostPerRunUSD |-> 0,
     MaxAttemptsPerRun |-> 0, MaxTokensPerRun |-> 0, MaxLatencyPerAttemptMS |-> 0,
     UpdatedAt |-> NoTime]

\* The zero value of domain.PolicyCap.
ZeroCap ==
    [ID |-> <<>>, Name |-> <<>>, ProviderType |-> <<>>, Provider |-> <<>>, Model |-> <<>>,
     MaxCostPerRunUSD |-> 0, MaxAttemptsPerRun |-> 0, MaxTokensPerRun |-> 0,
     MaxCostPerAttemptUSD |-> 0, MaxTokensPerAttempt |-> 0, MaxLatencyPerAttemptMS |-> 0,
     Priority |-> 0, DryRun |-> FALSE, IsActive |-> FALSE, UpdatedAt |-> NoTime]

\* An optional request field (a pointer): <<>> when absent, <<v>> when set.
Nil == <<>>

IsSet(field) == field # Nil

Val(field) == field[1]

NoCall == [op |-> "", code |-> "", msg |-> <<>>]

----------------------------------------------------------------------------
(* FileStore: runs, attempts, events, policy caps *)

InsertRun(items, run) == Append(items, run)

\* The least index of an item with the identifier, 0 when there is none: the
\* item at which a loop over the list stops.
FirstIndex(items, id) ==
    LET found == {i \in 1..Len(items) : items[i].ID = id}
    IN  IF found = {} THEN 0 ELSE CHOOSE i \in found : \A j \in found : i <= j

\* FileStore.UpdateRun replaces the first run with the identifier.
UpdateRun(items, run) ==
    IF FirstIndex(items, run.ID) = 0 THEN Append(items, run)
    ELSE [items EXCEPT ![FirstIndex(items, run.ID)] = run]

\* ListRunsFiltered(RunFilter{RunID: runID, Limit: 1})
ListRunsFiltered(items, runID) ==
    LET found == SelectSeq(items, LAMBDA r : runID = <<>> \/ r.ID = runID)
    IN  IF Len(found) > 1 THEN SubSeq(found, 1, 1) ELSE found

\* ListPromptAttemptsFiltered(AttemptFilter{RunID: runID})
ListPromptAttempts(items, runID) ==
    SelectSeq(items, LAMBDA a : runID = <<>> \/ a.RunID = runID)

InsertPromptAttempt(items, attempt) == Append(items, attempt)

InsertRunEvent(items, event) == Append(items, event)

\* FileStore.UpsertPolicyCap replaces the first cap with the identifier.
StoreUpsertPolicyCap(items, cap) ==
    IF FirstIndex(items, cap.ID) = 0 THEN Append(items, cap)
    ELSE [items EXCEPT ![FirstIndex(items, cap.ID)] = cap]

\* FileStore.DeletePolicyCap removes the first cap with the identifier.
StoreDeletePolicyCap(items, id) ==
    LET found == {i \in 1..Len(items) : items[i].ID = id}
        index == CHOOSE i \in found : \A j \in found : i <= j
    IN  IF found = {} THEN items
        ELSE SubSeq(items, 1, index - 1) \o SubSeq(items, index + 1, Len(items))

----------------------------------------------------------------------------
(* Policy resolution *)

\* The initial bestPriority, -1 << 62, scaled to the model's integers.
MinPriority == -1073741824

Specificity(cap) ==
    (IF cap.ProviderType # <<>> THEN 1 ELSE 0)
    + (IF cap.Provider # <<>> THEN 1 ELSE 0)
    + (IF cap.Model # <<>> THEN 1 ELSE 0)

CapMatches(cap, providerType, provider, model) ==
    /\ cap.IsActive
    /\ cap.ProviderType = <<>> \/ cap.ProviderType = providerType
    /\ cap.Provider = <<>> \/ cap.Provider = provider
    /\ cap.Model = <<>> \/ cap.Model = model

\* The loop's iteration with priority compared before specificity.
SelectStep_PriorityFirst(acc, cap, providerType, provider, model) ==
    IF ~CapMatches(cap, providerType, provider, model) THEN acc
    ELSE IF \/ ~acc.found
            \/ cap.Priority > acc.bestPriority
            \/ (cap.Priority = acc.bestPriority /\ Specificity(cap) > acc.bestSpecificity)
         THEN [selected |-> cap, found |-> TRUE, bestSpecificity |-> Specificity(cap),
               bestPriority |-> cap.Priority]
         ELSE acc

\* One iteration of the loop of selectPolicyCap.
SelectStep(acc, cap, providerType, provider, model) ==
    IF ~CapMatches(cap, providerType, provider, model) THEN acc
    ELSE IF \/ ~acc.found
            \/ Specificity(cap) > acc.bestSpecificity
            \/ (Specificity(cap) = acc.bestSpecificity /\ cap.Priority > acc.bestPriority)
         THEN [selected |-> cap, found |-> TRUE, bestSpecificity |-> Specificity(cap),
               bestPriority |-> cap.Priority]
         ELSE acc

RECURSIVE SelectLoop(_, _, _, _, _, _)
SelectLoop(acc, caps, i, providerType, provider, model) ==
    IF i > Len(caps) THEN acc
    ELSE SelectLoop(SelectStep(acc, caps[i], providerType, provider, model),
                    caps, i + 1, providerType, provider, model)

selectPolicyCap(caps, providerType, provider, model) ==
    LET acc == SelectLoop([selected |-> ZeroCap, found |-> FALSE, bestSpecificity |-> -1,
                           bestPriority |-> MinPriority],
                          caps, 1, providerType, provider, model)
    IN  [cap |-> acc.selected, found |-> acc.found]

\* The overlay taking the cap's value even when it is zero.
Override_CapAlways(capValue, globalValue) == capValue

Override(capValue, globalValue) == IF capValue > 0 THEN capValue ELSE globalValue

resolveEffectiveLimits(pol, cap, hasCap) ==
    IF ~hasCap
    THEN [MaxCostPerRunUSD |-> pol.MaxCostPerRunUSD,
          MaxAttemptsPerRun |-> pol.MaxAttemptsPerRun,
          MaxTokensPerRun |-> pol.MaxTokensPerRun,
          MaxLatencyPerAttemptMS |-> pol.MaxLatencyPerAttemptMS,
          MaxCostPerAttemptUSD |-> 0, MaxTokensPerAttempt |-> 0,
          Source |-> <<"global-policy">>]
    ELSE [MaxCostPerRunUSD |-> Override(cap.MaxCostPerRunUSD, pol.MaxCostPerRunUSD),
          MaxAttemptsPerRun |-> Override(cap.MaxAttemptsPerRun, pol.MaxAttemptsPerRun),
          MaxTokensPerRun |-> Override(cap.MaxTokensPerRun, pol.MaxTokensPerRun),
          MaxLatencyPerAttemptMS |->
              Override(cap.MaxLatencyPerAttemptMS, pol.MaxLatencyPerAttemptMS),
          MaxCostPerAttemptUSD |-> Override(cap.MaxCostPerAttemptUSD, 0),
          MaxTokensPerAttempt |-> Override(cap.MaxTokensPerAttempt, 0),
          Source |-> <<"policy-cap:">> \o cap.ID]

----------------------------------------------------------------------------
(* HubService calls.  A call is a record: the operation, the request, the  *)
(* position pc in the method (each position is one access to the store     *)
(* with the local computation that follows it), the method's locals loc,   *)
(* and, once pc = "done", the answer (code, msg).  S is the store, t the   *)
(* clock reading.  Every step returns the call and the store after it.     *)

ProcIds == 1..MaxProcs

\* What a call has written so far: per collection the records it stored, in
\* the order it stored them, and the policy it set.
NoWrites == [policy |-> <<>>, policyCaps |-> <<>>, runs |-> <<>>, attempts |-> <<>>,
             runEvents |-> <<>>]

\* Beside the call itself a record keeps its history, up to the return:
\* read maps every collection the call has read to what it
\* found there, wrote is what it has stored.
IdleProc ==
    [op |-> "", pc |-> "idle", req |-> <<>>, loc |-> <<>>, code |-> "", msg |-> <<>>,
     out |-> <<>>, read |-> <<>>, wrote |-> NoWrites]

NewProc(op, req) ==
    [op |-> op, pc |-> "start", req |-> req, loc |-> <<>>, code |-> "", msg |-> <<>>,
     out |-> <<>>, read |-> <<>>, wrote |-> NoWrites]

Return(p, code, msg) == [p EXCEPT !.pc = "done", !.loc = <<>>, !.code = code, !.msg = msg]

\* The call returns the record out with no error.
ReturnRecord(p, out) ==
    [p EXCEPT !.pc = "done", !.loc = <<>>, !.code = OK, !.msg = <<>>, !.out = <<out>>]

Goto(p, pc, loc) == [p EXCEPT !.pc = pc, !.loc = loc]

\* How FileStore.persistLocked ends: with the data file written ("saved"),
\* or at the first of its three calls that fails, json.MarshalIndent of the
\* state, os.WriteFile of the temporary file or os.Rename of the temporary
\* file to the data file.
PersistOutcomes == {"saved", "MarshalIndent", "WriteFile", "Rename"}

\* FileStore.persistLocked: the message of the error it returns when the
\* call named by saved failed.
PersistFailure(saved) ==
    IF saved = "MarshalIndent" THEN <<"failed to serialize state">>
    ELSE IF saved = "WriteFile" THEN <<"failed to write temporary state file">>
    ELSE IF saved = "Rename" THEN <<"failed to atomically persist state file">>
    ELSE <<>>

\* FileStore.persistLocked: no error when the data file was written, and
\* Internal when one of its calls failed.
persistLocked(saved) == IF saved = "saved" THEN OK ELSE CodeInternal

\* A write method of the store has returned.  FileStore.Mutate replaces the
\* state in memory and then returns what persistLocked returns; saved is how
\* persistLocked ended.  The method hands the store's error on, and goes on
\* as then says when there is none.
Mutated(p, saved, then) ==
    IF persistLocked(saved) = OK THEN then
    ELSE Return(p, persistLocked(saved), PersistFailure(saved))

\* The store once newID has handed out an identifier.
Issued(S, prefix, t, random) == [S EXCEPT !.nextId[prefix] = Issue(@, t, random)]

\* Variant: the reason is returned as it is, with no default text.
KillSwitchMessage_NoDefault(pol) == TrimSpace(pol.KillSwitchReason)

KillSwitchMessage(pol) ==
    IF TrimSpace(pol.KillSwitchReason) = <<>>
    THEN <<"kill switch is enabled">>
    ELSE TrimSpace(pol.KillSwitchReason)

StartRunStep(p, S, t, random, saved) ==
    LET req == p.req
        workflow == TrimSpace(req.Workflow)
        agentID == TrimSpace(req.AgentID)
    IN  IF p.pc = "start"
        THEN IF workflow = <<>> \/ agentID = <<>>
             THEN [p |-> Return(p, CodeInvalidArgument,
                                <<"workflow and agent_id are required">>), S |-> S]
             ELSE IF req.MaxRetries < 0
             THEN [p |-> Return(p, CodeInvalidArgument,
                                <<"max_retries must be non-negative">>), S |-> S]
             ELSE IF S.policy.KillSwitch
             THEN [p |-> Return(p, CodeFailedPrecondition, KillSwitchMessage(S.policy)),
                   S |-> S]
             ELSE [p |-> Goto(p, "id", <<>>), S |-> S]
        ELSE IF p.pc = "id"
        THEN [p |-> Goto(p, "stamp", [id |-> newID("run", t, random)]),
              S |-> Issued(S, "run", t, random)]
        ELSE IF p.pc = "stamp"
        THEN [p |-> Goto(p, "insert",
                         [run |-> [ID |-> p.loc.id, Workflow |-> workflow,
                                   AgentID |-> agentID, Status |-> <<"running">>,
                                   MaxRetries |-> req.MaxRetries, TotalAttempts |-> 0,
                                   SuccessAttempts |-> 0, FailedAttempts |-> 0,
                                   TotalTokensIn |-> 0, TotalTokensOut |-> 0,
                                   TotalCostUSD |-> 0, DurationMS |-> Int64(0),
                                   LastError |-> <<>>, StartedAt |-> timeNowAt(t),
                                   FinishedAt |-> NoTime]]),
              S |-> S]
        ELSE [p |-> Mutated(p, saved, Return(p, OK, <<>>)),
              S |-> [S EXCEPT !.runs = InsertRun(@, p.loc.run)]]

\* The loop of FinishRun over the run's attempts.
RECURSIVE Accumulate(_, _, _)
Accumulate(run, items, i) ==
    IF i > Len(items) THEN run
    ELSE Accumulate(
             [run EXCEPT !.TotalAttempts = @ + 1,
                         !.TotalTokensIn = @ + items[i].TokensIn,
                         !.TotalTokensOut = @ + items[i].TokensOut,
                         !.TotalCostUSD = @ + items[i].CostUSD,
                         !.SuccessAttempts =
                             IF items[i].Outcome = <<"success">> THEN @ + 1 ELSE @,
                         !.FailedAttempts =
                             IF items[i].Outcome = <<"success">> THEN @ ELSE @ + 1],
             items, i + 1)

\* The run is stamped with one reading of the clock (now); its duration is
\* taken with another (since), and only when started_at is a timestamp.
FinishRunStep(p, S, t, random, saved) ==
    LET req == p.req
        runID == TrimSpace(req.RunID)
        status == IF TrimSpace(req.Status) = <<>> THEN <<"completed">>
                  ELSE TrimSpace(req.Status)
        found == SelectSeq(S.runs, LAMBDA r : r.ID = runID)
    IN  IF p.pc = "start"
        THEN IF runID = <<>>
             THEN [p |-> Return(p, CodeInvalidArgument, <<"run_id is required">>), S |-> S]
             ELSE IF status \notin validRunStatuses \/ status = <<"running">>
             THEN [p |-> Return(p, CodeInvalidArgument,
                                <<"status must be one of: completed, failed, cancelled">>),
                   S |-> S]
             ELSE IF found = <<>>
             THEN [p |-> Return(p, CodeNotFound, <<"run not found">>), S |-> S]
             ELSE [p |-> Goto(p, "now", [run |-> found[1]]), S |-> S]
        ELSE IF p.pc = "now"
        THEN [p |-> Goto(p, IF ParseRFC3339Nano(p.loc.run.StartedAt).ok THEN "since"
                            ELSE "attempts",
                         [run |-> [p.loc.run EXCEPT !.Status = status,
                                                    !.FinishedAt = timeNowAt(t),
                                                    !.LastError = TrimSpace(req.LastError)]]),
              S |-> S]
        ELSE IF p.pc = "since"
        THEN [p |-> Goto(p, "attempts",
                         [run |-> [p.loc.run EXCEPT !.DurationMS =
                                      MillisecondsBetween(
                                          ParseRFC3339Nano(p.loc.run.StartedAt).instant,
                                          InstantOf(t))]]),
              S |-> S]
        ELSE IF p.pc = "attempts"
        THEN [p |-> Goto(p, "update",
                         [run |-> Accumulate(p.loc.run,
                                             ListPromptAttempts(S.attempts, runID), 1)]),
              S |-> S]
        ELSE [p |-> Mutated(p, saved, Return(p, OK, <<>>)),
              S |-> [S EXCEPT !.runs = UpdateRun(@, p.loc.run)]]

\* Variant: every violation is only logged.
LimitCheck_AlwaysDry(limit, value, dry, event, error, source) ==
    [limit |-> limit, value |-> value, dry |-> TRUE, event |-> <<event>>,
     error |-> <<error>> \o source \o <<")">>]

\* Variant: no violation is only logged.
LimitCheck_NeverDry(limit, value, dry, event, error, source) ==
    [limit |-> limit, value |-> value, dry |-> FALSE, event |-> <<event>>,
     error |-> <<error>> \o source \o <<")">>]

\* One limit check of RecordPromptAttempt: the effective limit, the value
\* compared with it, whether a violation is only logged, and the two texts.
LimitCheck(limit, value, dry, event, error, source) ==
    [limit |-> limit, value |-> value, dry |-> dry, event |-> <<event>>,
     error |-> <<error>> \o source \o <<")">>]

RECURSIVE SumCost(_, _)
SumCost(items, i) == IF i > Len(items) THEN 0 ELSE items[i].CostUSD + SumCost(items, i + 1)

RECURSIVE SumTokens(_, _)
SumTokens(items, i) ==
    IF i > Len(items) THEN 0
    ELSE items[i].TokensIn + items[i].TokensOut + SumTokens(items, i + 1)

\* The attempt checks with latency passed over under any dry-run cap.
AttemptChecks_DryWhenever(req, limits, cap, hasCap) ==
    <<LimitCheck(limits.MaxLatencyPerAttemptMS, req.LatencyMS, hasCap /\ cap.DryRun,
                 "attempt latency exceeds cap limit",
                 "attempt latency exceeds policy cap (", limits.Source),
      LimitCheck(limits.MaxCostPerAttemptUSD, req.CostUSD, hasCap /\ cap.DryRun,
                 "attempt cost exceeds cap limit",
                 "attempt cost exceeds policy cap (", limits.Source),
      LimitCheck(limits.MaxTokensPerAttempt, req.TokensIn + req.TokensOut,
                 hasCap /\ cap.DryRun,
                 "attempt tokens exceed cap limit",
                 "attempt tokens exceed policy cap (", limits.Source)>>

\* The checks made before the run's attempts are read.
AttemptChecks(req, limits, cap, hasCap) ==
    <<LimitCheck(limits.MaxLatencyPerAttemptMS, req.LatencyMS,
                 (hasCap /\ cap.MaxLatencyPerAttemptMS > 0) /\ cap.DryRun,
                 "attempt latency exceeds cap limit",
                 "attempt latency exceeds policy cap (", limits.Source),
      LimitCheck(limits.MaxCostPerAttemptUSD, req.CostUSD, hasCap /\ cap.DryRun,
                 "attempt cost exceeds cap limit",
                 "attempt cost exceeds policy cap (", limits.Source),
      LimitCheck(limits.MaxTokensPerAttempt, req.TokensIn + req.TokensOut,
                 hasCap /\ cap.DryRun,
                 "attempt tokens exceed cap limit",
                 "attempt tokens exceed policy cap (", limits.Source)>>

\* The run checks without the count of the run's attempts.
RunChecks_NoCount(req, limits, cap, hasCap, existingAttempts) ==
    <<LimitCheck(limits.MaxCostPerRunUSD, SumCost(existingAttempts, 1) + req.CostUSD,
                 (hasCap /\ cap.MaxCostPerRunUSD > 0) /\ cap.DryRun,
                 "run exceeds max cost cap",
                 "run exceeds max cost cap (", limits.Source),
      LimitCheck(limits.MaxTokensPerRun,
                 SumTokens(existingAttempts, 1) + req.TokensIn + req.TokensOut,
                 (hasCap /\ cap.MaxTokensPerRun > 0) /\ cap.DryRun,
                 "run exceeds max tokens cap",
                 "run exceeds max tokens cap (", limits.Source)>>

\* The checks made on the run's stored attempts.
RunChecks(req, limits, cap, hasCap, existingAttempts) ==
    <<LimitCheck(limits.MaxAttemptsPerRun, Len(existingAttempts) + 1,
                 (hasCap /\ cap.MaxAttemptsPerRun > 0) /\ cap.DryRun,
                 "run exceeds max attempts cap",
                 "run exceeds max attempts cap (", limits.Source),
      LimitCheck(limits.MaxCostPerRunUSD, SumCost(existingAttempts, 1) + req.CostUSD,
                 (hasCap /\ cap.MaxCostPerRunUSD > 0) /\ cap.DryRun,
                 "run exceeds max cost cap",
                 "run exceeds max cost cap (", limits.Source),
      LimitCheck(limits.MaxTokensPerRun,
                 SumTokens(existingAttempts, 1) + req.TokensIn + req.TokensOut,
                 (hasCap /\ cap.MaxTokensPerRun > 0) /\ cap.DryRun,
                 "run exceeds max tokens cap",
                 "run exceeds max tokens cap (", limits.Source)>>

\* The checks in order: a violation is logged and passed over when dry,
\* and ends the method with ResourceExhausted otherwise.
RECURSIVE EvalChecks(_, _, _)
EvalChecks(checks, i, logged) ==
    IF i > Len(checks) THEN [code |-> OK, msg |-> <<>>, logged |-> logged]
    ELSE IF checks[i].limit > 0 /\ checks[i].value > checks[i].limit
         THEN IF checks[i].dry
              THEN EvalChecks(checks, i + 1, Append(logged, checks[i].event))
              ELSE [code |-> CodeResourceExhausted, msg |-> checks[i].error,
                    logged |-> logged]
         ELSE EvalChecks(checks, i + 1, logged)

\* The event logPolicyCapDryRunViolation hands to InsertRunEvent.
logPolicyCapDryRunViolation(runID, cap, message, id, createdAt) ==
    LET payload == [cap_id |-> cap.ID, cap_name |-> cap.Name,
                    provider_type |-> cap.ProviderType, provider |-> cap.Provider,
                    model |-> cap.Model, priority |-> cap.Priority,
                    dry_run |-> cap.DryRun]
    IN  [ID |-> id, RunID |-> runID,
         EventType |-> <<"policy_cap_violation_dry_run">>, Level |-> <<"warn">>,
         Message |-> message, DataJSON |-> jsonMarshal(payload), CreatedAt |-> createdAt]

\* After a group of checks: log what is pending, then go on to the position
\* next or return the error of the blocking check.
AfterChecks(p, verdict, next) ==
    IF verdict.logged = <<>>
    THEN IF verdict.code = OK THEN Goto(p, next, p.loc)
         ELSE Return(p, verdict.code, verdict.msg)
    ELSE Goto(p, "logid", [p.loc EXCEPT !.pending = verdict.logged,
                                        !.after = IF verdict.code = OK THEN next ELSE "done",
                                        !.code = verdict.code, !.msg = verdict.msg])

RecordPromptAttemptValidation(req) ==
    IF TrimSpace(req.RunID) = <<>> \/ TrimSpace(req.Outcome) = <<>>
       \/ TrimSpace(req.Model) = <<>>
    THEN <<"run_id, outcome, and model are required">>
    ELSE IF req.AttemptNumber <= 0
    THEN <<"attempt_number must be greater than 0">>
    ELSE IF TrimSpace(req.Outcome) \notin validAttemptOutcomes
    THEN <<"outcome must be one of: success, failed, timeout, retryable_error, tool_error">>
    ELSE IF req.TokensIn < 0 \/ req.TokensOut < 0 \/ req.CostUSD < 0 \/ req.LatencyMS < 0
    THEN <<"tokens, cost, and latency must be non-negative">>
    ELSE <<>>

\* What RecordPromptAttempt keeps from one access to the next.
AttemptLocals(pol) ==
    [policy |-> pol, cap |-> ZeroCap, hasCap |-> FALSE, limits |-> <<>>,
     pending |-> <<>>, after |-> "", code |-> OK, msg |-> <<>>, id |-> <<>>,
     event |-> <<>>, attempt |-> <<>>]

\* RecordPromptAttempt from the first dry-run event on.  An event and the
\* attempt are made in two readings of the clock, one for the identifier
\* and one for created_at, and stored in a third step.
RecordPromptAttemptWrites(p, S, t, random, saved) ==
    LET req == p.req
        runID == TrimSpace(req.RunID)
        providerType == IF TrimSpace(req.ProviderType) = <<>> THEN <<"api">>
                        ELSE TrimSpace(req.ProviderType)
        existingAttempts == ListPromptAttempts(S.attempts, runID)
    IN  IF p.pc = "logid"
        THEN [p |-> Goto(p, "logstamp", [p.loc EXCEPT !.id = newID("evt", t, random)]),
              S |-> Issued(S, "evt", t, random)]
        ELSE IF p.pc = "logstamp"
        THEN [p |-> Goto(p, "log",
                         [p.loc EXCEPT !.event =
                             logPolicyCapDryRunViolation(runID, p.loc.cap,
                                                         Head(p.loc.pending), p.loc.id,
                                                         timeNowAt(t))]),
              S |-> S]
        ELSE IF p.pc = "log"
        THEN [p |-> IF Len(p.loc.pending) > 1
                    THEN Goto(p, "logid", [p.loc EXCEPT !.pending = Tail(@)])
                    ELSE IF p.loc.after = "done"
                    THEN Return(p, p.loc.code, p.loc.msg)
                    ELSE Goto(p, p.loc.after, [p.loc EXCEPT !.pending = <<>>]),
              S |-> [S EXCEPT !.runEvents = InsertRunEvent(@, p.loc.event)]]
        ELSE IF p.pc = "attempts"
        THEN [p |-> AfterChecks(p, EvalChecks(RunChecks(req, p.loc.limits, p.loc.cap,
                                                        p.loc.hasCap, existingAttempts),
                                              1, <<>>),
                                "id"),
              S |-> S]
        ELSE IF p.pc = "id"
        THEN [p |-> Goto(p, "stamp", [p.loc EXCEPT !.id = newID("pat", t, random)]),
              S |-> Issued(S, "pat", t, random)]
        ELSE IF p.pc = "stamp"
        THEN [p |-> Goto(p, "insert",
                         [p.loc EXCEPT !.attempt =
                             [ID |-> p.loc.id, RunID |-> runID,
                              AttemptNumber |-> req.AttemptNumber,
                              ProviderType |-> providerType,
                              Provider |-> TrimSpace(req.Provider),
                              Model |-> TrimSpace(req.Model),
                              Outcome |-> TrimSpace(req.Outcome),
                              TokensIn |-> req.TokensIn, TokensOut |-> req.TokensOut,
                              CostUSD |-> req.CostUSD, LatencyMS |-> req.LatencyMS,
                              CreatedAt |-> timeNowAt(t)]]),
              S |-> S]
        ELSE [p |-> Mutated(p, saved, Return(p, OK, <<>>)),
              S |-> [S EXCEPT !.attempts = InsertPromptAttempt(@, p.loc.attempt)]]

\* Variant: the kill switch is looked at after the run.
RecordPromptAttemptStep_RunFirst(p, S, t, random, saved) ==
    LET req == p.req
        runID == TrimSpace(req.RunID)
        providerType == IF TrimSpace(req.ProviderType) = <<>> THEN <<"api">>
                        ELSE TrimSpace(req.ProviderType)
        sel == selectPolicyCap(S.policyCaps, providerType, TrimSpace(req.Provider),
                               TrimSpace(req.Model))
        found == ListRunsFiltered(S.runs, runID)
    IN  IF p.pc = "start"
        THEN IF RecordPromptAttemptValidation(req) # <<>>
             THEN [p |-> Return(p, CodeInvalidArgument, RecordPromptAttemptValidation(req)),
                   S |-> S]
             ELSE [p |-> Goto(p, "caps", AttemptLocals(S.policy)), S |-> S]
        ELSE IF p.pc = "caps"
        THEN [p |-> Goto(p, "run",
                         [p.loc EXCEPT !.cap = sel.cap, !.hasCap = sel.found,
                                       !.limits = resolveEffectiveLimits(p.loc.policy,
                                                                         sel.cap, sel.found)]),
              S |-> S]
        ELSE IF p.pc = "run"
        THEN IF found = <<>>
             THEN [p |-> Return(p, CodeNotFound, <<"run not found">>), S |-> S]
             ELSE IF found[1].Status # <<"running">>
             THEN [p |-> Return(p, CodeFailedPrecondition,
                                <<"run is not in running state">>), S |-> S]
             ELSE IF p.loc.policy.KillSwitch
             THEN [p |-> Return(p, CodeFailedPrecondition,
                                KillSwitchMessage(p.loc.policy)), S |-> S]
             ELSE [p |-> AfterChecks(p, EvalChecks(AttemptChecks(req, p.loc.limits,
                                                                 p.loc.cap, p.loc.hasCap),
                                                   1, <<>>),
                                     "attempts"),
                   S |-> S]
        ELSE RecordPromptAttemptWrites(p, S, t, random, saved)

RecordPromptAttemptStep(p, S, t, random, saved) ==
    LET req == p.req
        runID == TrimSpace(req.RunID)
        providerType == IF TrimSpace(req.ProviderType) = <<>> THEN <<"api">>
                        ELSE TrimSpace(req.ProviderType)
        sel == selectPolicyCap(S.policyCaps, providerType, TrimSpace(req.Provider),
                               TrimSpace(req.Model))
        found == ListRunsFiltered(S.runs, runID)
    IN  IF p.pc = "start"
        THEN IF RecordPromptAttemptValidation(req) # <<>>
             THEN [p |-> Return(p, CodeInvalidArgument, RecordPromptAttemptValidation(req)),
                   S |-> S]
             ELSE IF S.policy.KillSwitch
             THEN [p |-> Return(p, CodeFailedPrecondition, KillSwitchMessage(S.policy)),
                   S |-> S]
             ELSE [p |-> Goto(p, "caps", AttemptLocals(S.policy)), S |-> S]
        ELSE IF p.pc = "caps"
        THEN [p |-> Goto(p, "run",
                         [p.loc EXCEPT !.cap = sel.cap, !.hasCap = sel.found,
                                       !.limits = resolveEffectiveLimits(p.loc.policy,
                                                                         sel.cap, sel.found)]),
              S |-> S]
        ELSE IF p.pc = "run"
        THEN IF found = <<>>
             THEN [p |-> Return(p, CodeNotFound, <<"run not found">>), S |-> S]
             ELSE IF found[1].Status # <<"running">>
             THEN [p |-> Return(p, CodeFailedPrecondition,
                                <<"run is not in running state">>), S |-> S]
             ELSE [p |-> AfterChecks(p, EvalChecks(AttemptChecks(req, p.loc.limits,
                                                                 p.loc.cap, p.loc.hasCap),
                                                   1, <<>>),
                                     "attempts"),
                   S |-> S]
        ELSE RecordPromptAttemptWrites(p, S, t, random, saved)

RecordRunEventValidation(req) ==
    IF TrimSpace(req.RunID) = <<>> \/ TrimSpace(req.EventType) = <<>>
    THEN <<"run_id and event_type are required">>
    ELSE IF (IF TrimSpace(req.Level) = <<>> THEN <<"info">> ELSE TrimSpace(req.Level))
            \notin validEventLevels
    THEN <<"level must be one of: info, warn, error">>
    ELSE <<>>

\* The event RecordRunEvent makes: the identifier in the position id,
\* created_at in the position stamp.
RecordRunEventMakes(p, S, t, random, saved) ==
    LET req == p.req
    IN  IF p.pc = "id"
        THEN [p |-> Goto(p, "stamp", [id |-> newID("evt", t, random)]),
              S |-> Issued(S, "evt", t, random)]
        ELSE [p |-> Goto(p, "insert",
                         [event |-> [ID |-> p.loc.id, RunID |-> TrimSpace(req.RunID),
                                     EventType |-> TrimSpace(req.EventType),
                                     Level |-> IF TrimSpace(req.Level) = <<>>
                                               THEN <<"info">> ELSE TrimSpace(req.Level),
                                     Message |-> TrimSpace(req.Message),
                                     DataJSON |-> TrimSpace(req.DataJSON),
                                     CreatedAt |-> timeNowAt(t)]]),
              S |-> S]

\* Variant: the event's message is written to the run as its last error.
RecordRunEventStep_MarksRun(p, S, t, random, saved) ==
    LET runID == TrimSpace(p.req.RunID)
    IN  IF p.pc = "start"
        THEN IF RecordRunEventValidation(p.req) # <<>>
             THEN [p |-> Return(p, CodeInvalidArgument, RecordRunEventValidation(p.req)),
                   S |-> S]
             ELSE IF ~\E i \in 1..Len(S.runs) : S.runs[i].ID = runID
             THEN [p |-> Return(p, CodeNotFound, <<"run not found">>), S |-> S]
             ELSE [p |-> Goto(p, "id", <<>>), S |-> S]
        ELSE IF p.pc \in {"id", "stamp"}
        THEN RecordRunEventMakes(p, S, t, random, saved)
        ELSE [p |-> Mutated(p, saved, Return(p, OK, <<>>)),
              S |-> [S EXCEPT !.runEvents = InsertRunEvent(@, p.loc.event),
                              !.runs = [i \in 1..Len(@) |->
                                           IF @[i].ID = runID
                                           THEN [@[i] EXCEPT !.LastError = p.loc.event.Message]
                                           ELSE @[i]]]]

\* Variant: events are taken for running runs only.
RecordRunEventStep_RunningOnly(p, S, t, random, saved) ==
    LET runID == TrimSpace(p.req.RunID)
    IN  IF p.pc = "start"
        THEN IF RecordRunEventValidation(p.req) # <<>>
             THEN [p |-> Return(p, CodeInvalidArgument, RecordRunEventValidation(p.req)),
                   S |-> S]
             ELSE IF ~\E i \in 1..Len(S.runs) : S.runs[i].ID = runID
             THEN [p |-> Return(p, CodeNotFound, <<"run not found">>), S |-> S]
             ELSE IF \E i \in 1..Len(S.runs) :
                        S.runs[i].ID = runID /\ S.runs[i].Status # <<"running">>
             THEN [p |-> Return(p, CodeFailedPrecondition,
                                <<"run is not in running state">>), S |-> S]
             ELSE [p |-> Goto(p, "id", <<>>), S |-> S]
        ELSE IF p.pc \in {"id", "stamp"}
        THEN RecordRunEventMakes(p, S, t, random, saved)
        ELSE [p |-> Mutated(p, saved, Return(p, OK, <<>>)),
              S |-> [S EXCEPT !.runEvents = InsertRunEvent(@, p.loc.event)]]

RecordRunEventStep(p, S, t, random, saved) ==
    LET runID == TrimSpace(p.req.RunID)
    IN  IF p.pc = "start"
        THEN IF RecordRunEventValidation(p.req) # <<>>
             THEN [p |-> Return(p, CodeInvalidArgument, RecordRunEventValidation(p.req)),
                   S |-> S]
             ELSE IF ~\E i \in 1..Len(S.runs) : S.runs[i].ID = runID
             THEN [p |-> Return(p, CodeNotFound, <<"run not found">>), S |-> S]
             ELSE [p |-> Goto(p, "id", <<>>), S |-> S]
        ELSE IF p.pc \in {"id", "stamp"}
        THEN RecordRunEventMakes(p, S, t, random, saved)
        ELSE [p |-> Mutated(p, saved, Return(p, OK, <<>>)),
              S |-> [S EXCEPT !.runEvents = InsertRunEvent(@, p.loc.event)]]

\* The first negative limit of a request, in the order the method tests them.
RECURSIVE FirstNegative(_, _, _)
FirstNegative(req, names, i) ==
    IF i > Len(names) THEN ""
    ELSE IF IsSet(req[names[i]]) /\ Val(req[names[i]]) < 0 THEN names[i]
    ELSE FirstNegative(req, names, i + 1)

PolicyLimitFields ==
    <<"MaxCostPerRunUSD", "MaxAttemptsPerRun", "MaxTokensPerRun", "MaxLatencyPerAttemptMS">>

CapLimitFields ==
    <<"MaxCostPerRunUSD", "MaxAttemptsPerRun", "MaxTokensPerRun", "MaxCostPerAttemptUSD",
      "MaxTokensPerAttempt", "MaxLatencyPerAttemptMS">>

LimitJSONName ==
    [MaxCostPerRunUSD |-> "max_cost_per_run_usd",
     MaxAttemptsPerRun |-> "max_attempts_per_run",
     MaxTokensPerRun |-> "max_tokens_per_run",
     MaxCostPerAttemptUSD |-> "max_cost_per_attempt_usd",
     MaxTokensPerAttempt |-> "max_tokens_per_attempt",
     MaxLatencyPerAttemptMS |-> "max_latency_per_attempt_ms"]

NegativeLimitMessage(name) == <<LimitJSONName[name], "must be non-negative">>

Assign(field, old) == IF IsSet(field) THEN Val(field) ELSE old

\* The policy SetPolicy has read, with the fields of the request laid over.
PolicyWith(req, pol) ==
    [KillSwitch |-> Assign(req.KillSwitch, pol.KillSwitch),
     KillSwitchReason |->
         IF IsSet(req.KillSwitchReason) THEN TrimSpace(Val(req.KillSwitchReason))
         ELSE pol.KillSwitchReason,
     MaxCostPerRunUSD |-> Assign(req.MaxCostPerRunUSD, pol.MaxCostPerRunUSD),
     MaxAttemptsPerRun |-> Assign(req.MaxAttemptsPerRun, pol.MaxAttemptsPerRun),
     MaxTokensPerRun |-> Assign(req.MaxTokensPerRun, pol.MaxTokensPerRun),
     MaxLatencyPerAttemptMS |->
         Assign(req.MaxLatencyPerAttemptMS, pol.MaxLatencyPerAttemptMS),
     UpdatedAt |-> pol.UpdatedAt]

\* SetPolicy after its first access: the clock is read, the policy is
\* stored, and the policy the store then holds is read and returned.
SetPolicyWrites(p, S, t, random, saved) ==
    IF p.pc = "stamp"
    THEN [p |-> Goto(p, "set", [policy |-> [p.loc.policy EXCEPT !.UpdatedAt = timeNowAt(t)]]),
          S |-> S]
    ELSE IF p.pc = "set"
    THEN [p |-> Mutated(p, saved, Goto(p, "get", <<>>)),
          S |-> [S EXCEPT !.policy = p.loc.policy]]
    ELSE [p |-> ReturnRecord(p, S.policy), S |-> S]

SetPolicyStep(p, S, t, random, saved) ==
    IF p.pc = "start"
    THEN IF FirstNegative(p.req, PolicyLimitFields, 1) # ""
         THEN [p |-> Return(p, CodeInvalidArgument,
                            NegativeLimitMessage(FirstNegative(p.req, PolicyLimitFields, 1))),
               S |-> S]
         ELSE [p |-> Goto(p, "stamp", [policy |-> PolicyWith(p.req, S.policy)]), S |-> S]
    ELSE SetPolicyWrites(p, S, t, random, saved)

\* The cap UpsertPolicyCap starts from, with the fields of the request laid
\* over.
CapWith(req, current) ==
    [ID |-> current.ID,
     Name |-> IF req.Name # <<>> THEN TrimSpace(req.Name) ELSE current.Name,
     ProviderType |-> IF req.ProviderType # <<>> THEN TrimSpace(req.ProviderType)
                      ELSE current.ProviderType,
     Provider |-> IF req.Provider # <<>> THEN TrimSpace(req.Provider)
                  ELSE current.Provider,
     Model |-> IF req.Model # <<>> THEN TrimSpace(req.Model) ELSE current.Model,
     MaxCostPerRunUSD |-> Assign(req.MaxCostPerRunUSD, current.MaxCostPerRunUSD),
     MaxAttemptsPerRun |-> Assign(req.MaxAttemptsPerRun, current.MaxAttemptsPerRun),
     MaxTokensPerRun |-> Assign(req.MaxTokensPerRun, current.MaxTokensPerRun),
     MaxCostPerAttemptUSD |->
         Assign(req.MaxCostPerAttemptUSD, current.MaxCostPerAttemptUSD),
     MaxTokensPerAttempt |-> Assign(req.MaxTokensPerAttempt, current.MaxTokensPerAttempt),
     MaxLatencyPerAttemptMS |->
         Assign(req.MaxLatencyPerAttemptMS, current.MaxLatencyPerAttemptMS),
     Priority |-> Assign(req.Priority, current.Priority),
     DryRun |-> Assign(req.DryRun, current.DryRun),
     IsActive |-> Assign(req.IsActive, current.IsActive),
     UpdatedAt |-> current.UpdatedAt]

\* UpsertPolicyCap: the identifier, when the request names none (start); the
\* clock for the cap to be created (created); the caps stored (list); the
\* clock for updated_at (updated); the write (upsert).
UpsertPolicyCapStep(p, S, t, random, saved) ==
    LET req == p.req
        fresh == TrimSpace(req.ID) = <<>>
        providerType == TrimSpace(req.ProviderType)
        existing == SelectSeq(S.policyCaps, LAMBDA c : c.ID = p.loc.id)
        created == [ZeroCap EXCEPT !.ID = p.loc.id, !.Name = TrimSpace(req.Name),
                                   !.ProviderType = providerType,
                                   !.Provider = TrimSpace(req.Provider),
                                   !.Model = TrimSpace(req.Model),
                                   !.DryRun = FALSE, !.IsActive = TRUE,
                                   !.UpdatedAt = p.loc.created]
    IN  IF p.pc = "start"
        THEN [p |-> IF providerType # <<>> /\ providerType \notin validProviderTypes
                    THEN Return(p, CodeInvalidArgument,
                                <<"provider_type must be one of: api, subscription, opensource">>)
                    ELSE Goto(p, "created",
                              [id |-> IF fresh THEN newID("cap", t, random)
                                      ELSE TrimSpace(req.ID)]),
              S |-> IF fresh THEN Issued(S, "cap", t, random) ELSE S]
        ELSE IF p.pc = "created"
        THEN [p |-> Goto(p, "list", [id |-> p.loc.id, created |-> timeNowAt(t)]), S |-> S]
        ELSE IF p.pc = "list"
        THEN IF FirstNegative(req, CapLimitFields, 1) # ""
             THEN [p |-> Return(p, CodeInvalidArgument,
                                NegativeLimitMessage(FirstNegative(req, CapLimitFields, 1))),
                   S |-> S]
             ELSE [p |-> Goto(p, "updated",
                              [cap |-> CapWith(req, IF existing # <<>> THEN existing[1]
                                                    ELSE created)]),
                   S |-> S]
        ELSE IF p.pc = "updated"
        THEN [p |-> Goto(p, "upsert", [cap |-> [p.loc.cap EXCEPT !.UpdatedAt = timeNowAt(t)]]),
              S |-> S]
        ELSE [p |-> Mutated(p, saved, Return(p, OK, <<>>)),
              S |-> [S EXCEPT !.policyCaps = StoreUpsertPolicyCap(@, p.loc.cap)]]

\* HubService.DeletePolicyCap: one access to the store, which writes the
\* data file also when it holds no cap with the id.
DeletePolicyCapStep(p, S, t, random, saved) ==
    LET id == TrimSpace(p.req.ID)
    IN  IF id = <<>>
        THEN [p |-> Return(p, CodeInvalidArgument, <<"id is required">>), S |-> S]
        ELSE IF ~\E i \in 1..Len(S.policyCaps) : S.policyCaps[i].ID = id
        THEN [p |-> Mutated(p, saved, Return(p, CodeNotFound, <<"policy cap not found">>)),
              S |-> S]
        ELSE [p |-> Mutated(p, saved, Return(p, OK, <<>>)),
              S |-> [S EXCEPT !.policyCaps = StoreDeletePolicyCap(@, id)]]

\* One step of a call: t is the reading of the clock, random the byte newID
\* draws in the positions that make an identifier.
Step(p, S, t, random, saved) ==
    CASE p.op = "StartRun" -> StartRunStep(p, S, t, random, saved)
      [] p.op = "FinishRun" -> FinishRunStep(p, S, t, random, saved)
      [] p.op = "RecordPromptAttempt" -> RecordPromptAttemptStep(p, S, t, random, saved)
      [] p.op = "RecordRunEvent" -> RecordRunEventStep(p, S, t, random, saved)
      [] p.op = "SetPolicy" -> SetPolicyStep(p, S, t, random, saved)
      [] p.op = "UpsertPolicyCap" -> UpsertPolicyCapStep(p, S, t, random, saved)
      [] p.op = "DeletePolicyCap" -> DeletePolicyCapStep(p, S, t, random, saved)

\* The prefix of the identifier a call makes in its next step, "" when the
\* step makes none.
Makes(p) ==
    CASE p.op = "StartRun" /\ p.pc = "id" -> "run"
      [] p.op = "RecordPromptAttempt" /\ p.pc = "id" -> "pat"
      [] p.op = "RecordPromptAttempt" /\ p.pc = "logid" -> "evt"
      [] p.op = "RecordRunEvent" /\ p.pc = "id" -> "evt"
      [] p.op = "UpsertPolicyCap" /\ p.pc = "start" /\ TrimSpace(p.req.ID) = <<>> -> "cap"
      [] OTHER -> ""

\* The positions in which a call has the store write: the data file is
\* written or not.  Every method hands the store's error on to its caller
\* but logPolicyCapDryRunViolation, which drops the error of its
\* InsertRunEvent (line 1702): the position log goes on alike in both cases.
Mutates(p) ==
    \/ p.op \in {"StartRun", "RecordPromptAttempt", "RecordRunEvent"} /\ p.pc = "insert"
    \/ p.op = "RecordPromptAttempt" /\ p.pc = "log"
    \/ p.op = "FinishRun" /\ p.pc = "update"
    \/ p.op = "SetPolicy" /\ p.pc = "set"
    \/ p.op = "UpsertPolicyCap" /\ p.pc = "upsert"
    \/ p.op = "DeletePolicyCap" /\ p.pc = "start" /\ TrimSpace(p.req.ID) # <<>>

\* The collections of the store, and those a position of a method reads.
StoreFields == {"policy", "policyCaps", "runs", "attempts", "runEvents"}

Reads(op, pc) ==
    CASE op \in {"StartRun", "SetPolicy"} /\ pc = "start" -> {"policy"}
      [] op \in {"FinishRun", "RecordRunEvent"} /\ pc = "start" -> {"runs"}
      [] op = "UpsertPolicyCap" /\ pc = "list" -> {"policyCaps"}
      [] op = "DeletePolicyCap" /\ pc = "start" -> {"policyCaps"}
      [] op = "FinishRun" /\ pc = "attempts" -> {"attempts"}
      [] op = "RecordPromptAttempt" /\ pc = "start" -> {"policy"}
      [] op = "RecordPromptAttempt" /\ pc = "caps" -> {"policyCaps"}
      [] op = "RecordPromptAttempt" /\ pc = "run" -> {"runs"}
      [] op = "RecordPromptAttempt" /\ pc = "attempts" -> {"attempts"}
      [] OTHER -> {}

\* What the call has read once it has taken its step on the store S.
Observe(p, S) == p.read @@ [f \in Reads(p.op, p.pc) |-> S[f]]

\* The records of the list after that the list before does not hold.
Added(before, after) ==
    SelectSeq(after, LAMBDA x : \A i \in 1..Len(before) : before[i] # x)

\* What the call p has written once its step has taken the store from S to
\* T: the records the step added, and the policy when the step set it.
Note(p, S, T) ==
    [f \in StoreFields |->
        IF f = "policy"
        THEN IF T.policy # S.policy \/ (p.op = "SetPolicy" /\ p.pc = "set")
             THEN Append(p.wrote.policy, T.policy)
             ELSE p.wrote.policy
        ELSE p.wrote[f] \o Added(S[f], T[f])]

----------------------------------------------------------------------------
(* Task handlers: gRPC handler, service method and FileStore write *)

validTaskStatuses == {<<"todo">>, <<"in_progress">>, <<"done">>, <<"blocked">>}

\* FileStore.UpsertTask replaces the first task with the id.
UpsertTask(items, task) ==
    LET found == {i \in 1..Len(items) : items[i].id = task.id}
        first == CHOOSE i \in found : \A j \in found : i <= j
    IN  IF found = {} THEN Append(items, task)
        ELSE [items EXCEPT ![first] = task]

\* FileStore.DeleteTask: the first task with the id is taken out.
StoreDeleteTask(items, id) ==
    LET found == {i \in 1..Len(items) : items[i].id = id}
        first == CHOOSE i \in found : \A j \in found : i <= j
    IN  IF found = {} THEN items
        ELSE SubSeq(items, 1, first - 1) \o SubSeq(items, first + 1, Len(items))

\* A tag is a text; the upper-case letters of the model are the tokens "A"
\* and "B".  A request's tag list is Nil (a nil slice) or <<list>>.

\* strings.ToLower
ToLowerToken(token) == IF token = "A" THEN "a" ELSE IF token = "B" THEN "b" ELSE token

ToLower(text) == [i \in 1..Len(text) |-> ToLowerToken(text[i])]

RECURSIVE NormalizeFrom(_, _, _)
NormalizeFrom(tags, i, out) ==
    IF i > Len(tags) THEN out
    ELSE LET clean == ToLower(TrimSpace(tags[i]))
         IN  IF clean = <<>> \/ \E k \in 1..Len(out) : out[k] = clean
             THEN NormalizeFrom(tags, i + 1, out)
             ELSE NormalizeFrom(tags, i + 1, Append(out, clean))

\* normalizeTags: a nil list gives the empty list.
normalizeTags(tags) == IF IsSet(tags) THEN NormalizeFrom(Val(tags), 1, <<>>) ELSE <<>>

TaskRequest(id, title, tags) ==
    [ID |-> id, Title |-> title, Details |-> <<>>, Status |-> <<>>, Tags |-> tags]

\* Where a CreateTask call stands, and the task it has made so far.
TaskStart == [pc |-> "start", task |-> <<>>]

TaskDone == [pc |-> "done", task |-> <<>>]

\* One step of HubService.CreateTask.  The method checks the request and
\* makes the identifier (start), reads the clock for created_at (created)
\* and again for updated_at (updated), and writes the task (upsert): the
\* store keeps the task and hands back the error of its data file.  at is
\* the position of the call, t the reading of the clock, random the byte
\* newID draws, saved how persistLocked ended.
CreateTask(items, idSeq, request, at, t, random, saved) ==
    LET title == TrimSpace(request.Title)
        status == IF TrimSpace(request.Status) = <<>> THEN <<"todo">>
                  ELSE TrimSpace(request.Status)
        task == [id |-> newID("task", t, random), title |-> title,
                 details |-> TrimSpace(request.Details), status |-> status,
                 tags |-> normalizeTags(request.Tags), created_at |-> NoTime,
                 updated_at |-> NoTime]
        going == [at |-> at, code |-> OK, task |-> <<>>, tasks |-> items, nextId |-> idSeq]
    IN  IF at.pc = "start"
        THEN IF title = <<>> \/ status \notin validTaskStatuses
             THEN [at |-> TaskDone, code |-> CodeInvalidArgument, task |-> <<>>,
                   tasks |-> items, nextId |-> idSeq]
             ELSE [going EXCEPT !.at = [pc |-> "created", task |-> task],
                                !.nextId = [idSeq EXCEPT !["task"] = Issue(@, t, random)]]
        ELSE IF at.pc = "created"
        THEN [going EXCEPT !.at = [pc |-> "updated",
                                   task |-> [at.task EXCEPT !.created_at = timeNowAt(t)]]]
        ELSE IF at.pc = "updated"
        THEN [going EXCEPT !.at = [pc |-> "upsert",
                                   task |-> [at.task EXCEPT !.updated_at = timeNowAt(t)]]]
        ELSE [at |-> TaskDone, code |-> persistLocked(saved),
              task |-> IF persistLocked(saved) = OK THEN at.task ELSE <<>>,
              tasks |-> UpsertTask(items, at.task), nextId |-> idSeq]

\* The handler of CreateTask: HubService.CreateTask followed by toStruct.
CreateTaskResult(items, idSeq, req, at, t, random, saved) ==
    LET r == CreateTask(items, idSeq,
                        [TaskRequest(<<>>, req.title, Nil) EXCEPT !.Status = req.status],
                        at, t, random, saved)
    IN  [at |-> r.at, code |-> r.code,
         response |-> IF r.at.pc = "done" /\ r.code = OK THEN StructOf(r.task)
                      ELSE StructOf(<<>>),
         tasks |-> r.tasks, nextId |-> r.nextId]

\* HubService.DeleteTask followed by toStruct(map{"ok": true}).  The store
\* writes its data file also when it holds no task with the id, and its
\* error comes before the one of the missing task.
DeleteTaskResult(items, idSeq, req, saved) ==
    LET id == TrimSpace(req.id)
    IN  IF id = <<>>
        THEN [at |-> TaskDone, code |-> CodeInvalidArgument, response |-> StructOf(<<>>),
              tasks |-> items, nextId |-> idSeq]
        ELSE IF persistLocked(saved) # OK
        THEN [at |-> TaskDone, code |-> persistLocked(saved), response |-> StructOf(<<>>),
              tasks |-> StoreDeleteTask(items, id), nextId |-> idSeq]
        ELSE IF ~\E i \in 1..Len(items) : items[i].id = id
        THEN [at |-> TaskDone, code |-> CodeNotFound, response |-> StructOf(<<>>),
              tasks |-> items, nextId |-> idSeq]
        ELSE [at |-> TaskDone, code |-> OK, response |-> StructOf([ok |-> TRUE]),
              tasks |-> StoreDeleteTask(items, id), nextId |-> idSeq]

\* The comparison HubService.ListTasks sorts with: updated_at descending,
\* then id descending, both as strings.
TaskBefore(a, b) ==
    IF a.updated_at = b.updated_at THEN stringsCompare(b.id, a.id) < 0
    ELSE stringsCompare(b.updated_at, a.updated_at) < 0

ListTasks(items) ==
    [i \in 1..Len(items) |->
        items[CHOOSE k \in 1..Len(items) :
                 Cardinality({j \in 1..Len(items) : TaskBefore(items[j], items[k])}) = i - 1]]

\* HubService.ListTasks followed by toList: a list response, not an object.
ListTasksResult(items, idSeq) ==
    [at |-> TaskDone, code |-> OK, response |-> [kind |-> "list", fields |-> ListTasks(items)],
     tasks |-> items, nextId |-> idSeq]

\* One step of the handler of a request.
HandlerResult(items, idSeq, req, at, t, random, saved) ==
    IF req.method = "CreateTask"
    THEN CreateTaskResult(items, idSeq, req, at, t, random, saved)
    ELSE IF req.method = "DeleteTask" THEN DeleteTaskResult(items, idSeq, req, saved)
    ELSE ListTasksResult(items, idSeq)

\* The next step of the handler is a write of the store.
HandlerMutates(req, at) ==
    \/ req.method = "CreateTask" /\ at.pc = "upsert"
    \/ req.method = "DeleteTask" /\ TrimSpace(req.id) # <<>>

\* The bytes newID may draw in the next step of the handler.
HandlerDraws(idSeq, req, at, t) ==
    IF req.method = "CreateTask" /\ at.pc = "start" THEN RandomDraws(idSeq["task"], t)
    ELSE {0}

----------------------------------------------------------------------------
(* IdempotencyUnaryInterceptor.  One invocation takes the reservation,    *)
(* the steps of the handler, and the completion or release; each of them   *)
(* is atomic in the store.                                                 *)

CallIds == 1..MaxCalls

NoResponse == StructOf(<<>>)

NewCall ==
    [pc |-> "new", req |-> [method |-> "", title |-> <<>>, status |-> <<>>, id |-> <<>>,
                            idempotency_key |-> <<>>, header_key |-> <<>>],
     reserved |-> FALSE, ranHandler |-> FALSE, handlerOK |-> FALSE,
     code |-> "", response |-> NoResponse, ctx |-> <<>>, at |-> TaskStart]

Done(c) == calls[c].pc = "done"

\* Variant: the completed check comes before the request-hash comparison.
ReplayAnswer_CompletedFirst(record, requestHash) ==
    LET decoded == decodeIdempotentResponse(record.ResponseJSON)
    IN  IF record.Completed /\ decoded.err = OK
        THEN [code |-> OK, response |-> decoded.response]
        ELSE IF record.RequestHash # requestHash
        THEN [code |-> CodeConflict, response |-> NoResponse]
        ELSE [code |-> CodeFailedPrecondition, response |-> NoResponse]

\* Variant: a record in progress is answered like a completed one.
ReplayAnswer_IgnoresInProgress(record, requestHash) ==
    LET decoded == decodeIdempotentResponse(record.ResponseJSON)
    IN  IF record.RequestHash # requestHash
        THEN [code |-> CodeConflict, response |-> NoResponse]
        ELSE IF decoded.err # OK
        THEN [code |-> decoded.err, response |-> NoResponse]
        ELSE [code |-> OK, response |-> decoded.response]

\* Lines 791-803: the answer to an invocation that finds a record.
ReplayAnswer(record, requestHash) ==
    LET decoded == decodeIdempotentResponse(record.ResponseJSON)
    IN  IF record.RequestHash # requestHash
        THEN [code |-> CodeConflict, response |-> NoResponse]
        ELSE IF ~record.Completed
        THEN [code |-> CodeFailedPrecondition, response |-> NoResponse]
        ELSE IF decoded.err # OK
        THEN [code |-> decoded.err, response |-> NoResponse]
        ELSE [code |-> OK, response |-> decoded.response]

\* Lines 771-805: bypass, reservation, answer to an existing record.
IdempotencyUnaryInterceptor(c, req) ==
    /\ LET idempotencyKey == extractIdempotencyKey(req)
           requestHash == idempotencyRequestHash(req)
           base == [calls[c] EXCEPT !.req = req]
           r == ReserveIdempotencyKey(idempotency, req.method, idempotencyKey, requestHash)
           answer == ReplayAnswer(r.record, requestHash)
       IN  IF req.method \notin WriteMethods \/ idempotencyKey = <<>>
           THEN /\ calls' = [calls EXCEPT ![c] = [base EXCEPT !.pc = "handler"]]
                /\ UNCHANGED idempotency
           ELSE IF r.err # OK
           THEN /\ calls' = [calls EXCEPT ![c] = [base EXCEPT !.pc = "done", !.code = r.err]]
                /\ UNCHANGED idempotency
           ELSE IF r.created
           THEN /\ calls' = [calls EXCEPT ![c] =
                                [base EXCEPT !.pc = "handler", !.reserved = TRUE]]
                /\ idempotency' = r.store
           ELSE /\ UNCHANGED idempotency
                /\ calls' = [calls EXCEPT ![c] =
                                [base EXCEPT !.pc = "done", !.code = answer.code,
                                             !.response = answer.response]]
    /\ UNCHANGED <<tasks, nextId, now, hubVars>>

\* The interceptor called directly, as in the tests of the repository.
Invoke(c, req) ==
    /\ calls[c].pc = "new"
    /\ IdempotencyUnaryInterceptor(c, req)
    /\ UNCHANGED edgeVars

\* Line 805: response, err := handler(ctx, req).  One step of the handler;
\* with its last step the handler returns.
Handle(c) ==
    /\ calls[c].pc = "handler"
    /\ \E random \in HandlerDraws(nextId, calls[c].req, calls[c].at, now),
          saved \in (IF HandlerMutates(calls[c].req, calls[c].at) THEN PersistOutcomes
                    ELSE {"saved"}) :
          LET h == HandlerResult(tasks, nextId, calls[c].req, calls[c].at, now, random,
                                 saved)
          IN  /\ tasks' = h.tasks
              /\ nextId' = h.nextId
              /\ calls' = [calls EXCEPT ![c] =
                              IF h.at.pc = "done"
                              THEN [@ EXCEPT !.pc = "handled", !.ranHandler = TRUE,
                                             !.handlerOK = (h.code = OK),
                                             !.code = h.code, !.response = h.response,
                                             !.at = TaskStart]
                              ELSE [@ EXCEPT !.ranHandler = TRUE, !.at = h.at]]
    /\ UNCHANGED <<idempotency, now, hubVars, edgeVars>>

\* Lines 806-818 (and the plain return of a bypassing invocation).
Finish(c) ==
    /\ calls[c].pc = "handled"
    /\ LET call == calls[c]
           idempotencyKey == extractIdempotencyKey(call.req)
           encoded == encodeIdempotentResponse(call.response)
           completed == CompleteIdempotencyKey(idempotency, call.req.method,
                                               idempotencyKey, encoded.text)
       IN  IF ~call.reserved
           THEN /\ calls' = [calls EXCEPT ![c] = [@ EXCEPT !.pc = "done"]]
                /\ UNCHANGED idempotency
           ELSE IF call.code # OK
           THEN /\ idempotency' = ReleaseIdempotencyKey(idempotency, call.req.method,
                                                        idempotencyKey)
                /\ calls' = [calls EXCEPT ![c] = [@ EXCEPT !.pc = "done",
                                                           !.response = NoResponse]]
           ELSE IF encoded.err # OK
           THEN /\ idempotency' = ReleaseIdempotencyKey(idempotency, call.req.method,
                                                        idempotencyKey)
                /\ calls' = [calls EXCEPT ![c] = [@ EXCEPT !.pc = "done",
                                                           !.code = encoded.err,
                                                           !.response = NoResponse]]
           ELSE IF completed.err # OK
           THEN /\ idempotency' = completed.store
                /\ calls' = [calls EXCEPT ![c] = [@ EXCEPT !.pc = "done",
                                                           !.code = completed.err,
                                                           !.response = NoResponse]]
           ELSE /\ idempotency' = completed.store
                /\ calls' = [calls EXCEPT ![c] = [@ EXCEPT !.pc = "done"]]
    /\ UNCHANGED <<tasks, nextId, now, hubVars, edgeVars>>

----------------------------------------------------------------------------
(* RPC contract: the three method sets and the scope of each method *)

PublicReadMethods == {"GetHealth", "GetLeaderboard", "GetTelemetrySummary"}

PrivateReadMethods ==
    {"GetSummary", "ExportState", "ListTasks", "ListNotes", "ListChangelog",
     "ListBenchmarks", "ListRuns", "ListPromptAttempts", "ListRunEvents", "GetPolicy",
     "ListPolicyCaps"}

ScopeTasksWrite == <<"tasks:write">>
ScopeTelemetryWrite == <<"telemetry:write">>
ScopePolicyWrite == <<"policy:write">>
ScopeAdminRead == <<"admin:read">>

MethodScopes ==
    [m \in PrivateReadMethods \cup WriteMethods |->
        IF m \in PrivateReadMethods THEN ScopeAdminRead
        ELSE IF m \in {"CreateTask", "UpdateTask", "DeleteTask", "CreateNote",
                       "AppendChangelog"} THEN ScopeTasksWrite
        ELSE IF m \in {"RecordBenchmark", "StartRun", "FinishRun", "RecordPromptAttempt",
                       "RecordRunEvent"} THEN ScopeTelemetryWrite
        ELSE ScopePolicyWrite]

DefaultAgentKeyScopes ==
    <<ScopeTasksWrite, ScopeTelemetryWrite, ScopePolicyWrite, ScopeAdminRead>>

\* Variant: only the write methods require authentication.
RequiresAuthentication_WritesOnly(fullMethod) == fullMethod \in WriteMethods

RequiresAuthentication(fullMethod) ==
    fullMethod \in WriteMethods \/ fullMethod \in PrivateReadMethods

\* Returns the scope and whether the method has one.
RequiredScope(fullMethod) ==
    IF fullMethod \in DOMAIN MethodScopes
    THEN [scope |-> MethodScopes[fullMethod], ok |-> TRUE]
    ELSE [scope |-> <<>>, ok |-> FALSE]

----------------------------------------------------------------------------
(* gRPC status codes and the mapping of application errors *)

GrpcOK == "OK"
GrpcInvalidArgument == "InvalidArgument"
GrpcNotFound == "NotFound"
GrpcAlreadyExists == "AlreadyExists"
GrpcUnauthenticated == "Unauthenticated"
GrpcPermissionDenied == "PermissionDenied"
GrpcFailedPrecondition == "FailedPrecondition"
GrpcResourceExhausted == "ResourceExhausted"
GrpcInternal == "Internal"

\* ErrorUnaryInterceptor with mapError: the status of an application error.
mapError(code) ==
    IF code = OK THEN GrpcOK
    ELSE IF code = CodeInvalidArgument THEN GrpcInvalidArgument
    ELSE IF code = CodeNotFound THEN GrpcNotFound
    ELSE IF code = CodeConflict THEN GrpcAlreadyExists
    ELSE IF code = CodeUnauthenticated THEN GrpcUnauthenticated
    ELSE IF code = CodeFailedPrecondition THEN GrpcFailedPrecondition
    ELSE IF code = CodeResourceExhausted THEN GrpcResourceExhausted
    ELSE GrpcInternal

----------------------------------------------------------------------------
(* Authentication.  A credential is a text; the request metadata holds the *)
(* headers x-modeloman-token and authorization.  SHA-256 is taken to be    *)
(* collision free: the digest stands for its input.                        *)

sha256(text) == <<"sha256", text>>

\* The hex digest of the trimmed key, "" for a blank key.
hashAPIKey(rawKey) ==
    IF TrimSpace(rawKey) = <<>> THEN <<>> ELSE sha256(TrimSpace(rawKey))

NoPrincipal == [AgentID |-> <<>>, KeyID |-> <<>>, Scopes |-> <<>>]

\* A row of agent_api_keys; expires_at 0 stands for NULL.
AgentKeyRow(rawKey, agentID, keyID, scopes, isActive, revoked, expiresAt) ==
    [key_hash |-> hashAPIKey(rawKey), agent_id |-> agentID, key_id |-> keyID,
     scopes |-> scopes, is_active |-> isActive, revoked |-> revoked,
     expires_at |-> expiresAt]

\* PostgresStore.AuthenticateAgentKey: principal, ok, err.  The query and
\* the update of last_used_at fail when the database is unavailable.
AuthenticateAgentKey(keyAuth, rawKey, t) ==
    LET hash == hashAPIKey(rawKey)
        rows == SelectSeq(keyAuth.rows, LAMBDA r :
                    /\ r.key_hash = hash /\ r.is_active /\ ~r.revoked
                    /\ (r.expires_at = 0 \/ r.expires_at > t))
    IN  IF hash = <<>> THEN [principal |-> NoPrincipal, ok |-> FALSE, err |-> OK]
        ELSE IF ~keyAuth.up
        THEN [principal |-> NoPrincipal, ok |-> FALSE, err |-> CodeInternal]
        ELSE IF rows = <<>> THEN [principal |-> NoPrincipal, ok |-> FALSE, err |-> OK]
        ELSE [principal |-> [AgentID |-> rows[1].agent_id, KeyID |-> rows[1].key_id,
                             Scopes |-> rows[1].scopes],
              ok |-> TRUE, err |-> OK]

\* strings.HasPrefix(authHeader, "Bearer ")
HasBearerPrefix(authHeader) ==
    Len(authHeader) >= 2 /\ authHeader[1] = "Bearer" /\ authHeader[2] = Blank

extractToken(md) ==
    LET token == TrimSpace(md.token)
        authHeader == TrimSpace(md.authorization)
    IN  IF token # <<>> THEN token
        ELSE IF HasBearerPrefix(authHeader)
        THEN TrimSpace(SubSeq(authHeader, 3, Len(authHeader)))
        ELSE <<>>

\* Variant: any scope at all is enough.
hasScope_AnyScope(scopes, required) == Len(scopes) > 0

hasScope(scopes, required) ==
    \E i \in 1..Len(scopes) : TrimSpace(scopes[i]) = required

\* Variant: the two texts are compared after trimming, not by digest.
legacyTokenMatch_Trimmed(requestToken, expectedToken) ==
    TrimSpace(requestToken) = TrimSpace(expectedToken)

legacyTokenMatch(requestToken, expectedToken) ==
    sha256(requestToken) = sha256(expectedToken)

LegacyPrincipal ==
    [AgentID |-> <<"legacy-shared-token">>, KeyID |-> <<"legacy_shared_token">>,
     Scopes |-> DefaultAgentKeyScopes]

AuthAnswer(code, msg, principal, hasPrincipal) ==
    [code |-> code, msg |-> msg, principal |-> principal, hasPrincipal |-> hasPrincipal,
     next |-> code = GrpcOK]

\* Variant: the configured token is tried before the key lookup.
AuthUnaryInterceptor_LegacyFirst(cfg, fullMethod, md, t) ==
    LET requestToken == extractToken(md)
        looked == AuthenticateAgentKey(cfg.keyAuth, requestToken, t)
        legacy == cfg.allowLegacyToken /\ cfg.token # <<>>
                  /\ legacyTokenMatch(requestToken, cfg.token)
        required == RequiredScope(fullMethod)
        principal == IF legacy THEN LegacyPrincipal ELSE looked.principal
    IN  IF ~RequiresAuthentication(fullMethod)
        THEN AuthAnswer(GrpcOK, "", NoPrincipal, FALSE)
        ELSE IF requestToken = <<>>
        THEN AuthAnswer(GrpcUnauthenticated, "missing authentication token", NoPrincipal, FALSE)
        ELSE IF ~legacy /\ ~cfg.keyAuth.isNil /\ looked.err # OK
        THEN AuthAnswer(GrpcInternal, "authentication subsystem unavailable", NoPrincipal, FALSE)
        ELSE IF ~legacy /\ ~(~cfg.keyAuth.isNil /\ looked.ok)
        THEN AuthAnswer(GrpcUnauthenticated, "invalid authentication token", NoPrincipal, FALSE)
        ELSE IF required.ok /\ ~hasScope(principal.Scopes, required.scope)
        THEN AuthAnswer(GrpcPermissionDenied, "api key scope does not allow this method",
                        NoPrincipal, FALSE)
        ELSE AuthAnswer(GrpcOK, "", principal, TRUE)

\* The answer of the interceptor and, when it calls the next stage, the
\* principal it attaches to the context.
AuthUnaryInterceptor(cfg, fullMethod, md, t) ==
    LET requestToken == extractToken(md)
        looked == AuthenticateAgentKey(cfg.keyAuth, requestToken, t)
        byKey == ~cfg.keyAuth.isNil /\ looked.ok
        legacy == ~byKey /\ cfg.allowLegacyToken /\ cfg.token # <<>>
                  /\ legacyTokenMatch(requestToken, cfg.token)
        principal == IF byKey THEN looked.principal
                     ELSE IF legacy THEN LegacyPrincipal ELSE NoPrincipal
        required == RequiredScope(fullMethod)
    IN  IF ~RequiresAuthentication(fullMethod)
        THEN AuthAnswer(GrpcOK, "", NoPrincipal, FALSE)
        ELSE IF requestToken = <<>>
        THEN AuthAnswer(GrpcUnauthenticated, "missing authentication token", NoPrincipal, FALSE)
        ELSE IF ~cfg.keyAuth.isNil /\ looked.err # OK
        THEN AuthAnswer(GrpcInternal, "authentication subsystem unavailable", NoPrincipal, FALSE)
        ELSE IF ~byKey /\ ~legacy
        THEN AuthAnswer(GrpcUnauthenticated, "invalid authentication token", NoPrincipal, FALSE)
        ELSE IF required.ok /\ ~hasScope(principal.Scopes, required.scope)
        THEN AuthAnswer(GrpcPermissionDenied, "api key scope does not allow this method",
                        NoPrincipal, FALSE)
        ELSE AuthAnswer(GrpcOK, "", principal, TRUE)

----------------------------------------------------------------------------
(* Token bucket rate limiter.  Time is counted in whole seconds.  Rates,   *)
(* bursts and tokens are float64 values; the ones offered are multiples of *)
(* half a token, and so is every quantity the arithmetic of the code       *)
(* produces from them, exactly.  The model counts them in halves of a      *)
(* token: a burst of 1 is half a token.                                    *)

\* One token, in halves.
OneToken == 2

\* NewTokenBucketRateLimiter: the defaults of the values that are not positive.
NewTokenBucketRateLimiter(config) ==
    [config |->
        [AuthenticatedPerSecond |->
            IF config.AuthenticatedPerSecond <= 0 THEN 20 * OneToken
            ELSE config.AuthenticatedPerSecond,
         AuthenticatedBurst |->
            IF config.AuthenticatedBurst <= 0 THEN 60 * OneToken
            ELSE config.AuthenticatedBurst,
         UnauthenticatedPerSecond |->
            IF config.UnauthenticatedPerSecond <= 0 THEN 5 * OneToken
            ELSE config.UnauthenticatedPerSecond,
         UnauthenticatedBurst |->
            IF config.UnauthenticatedBurst <= 0 THEN 20 * OneToken
            ELSE config.UnauthenticatedBurst,
         BucketTTL |-> IF config.BucketTTL <= 0 THEN 600 ELSE config.BucketTTL],
     buckets |-> [i \in {} |-> [tokens |-> 0, lastRefill |-> 0, lastSeen |-> 0]]]

\* The places of a token in a text.  The tokens ":", "[" and "]" are the
\* characters; no other token holds one of them.
Places(text, token) == {k \in 1..Len(text) : text[k] = token}

\* net.SplitHostPort: the host is what precedes the last colon, or what the
\* brackets enclose; the port, which may be empty, is not used.  An address
\* with no colon, with a colon in an unbracketed host, or with a misplaced
\* bracket is an error.
SplitHostPort(address) ==
    LET colons == Places(address, ":")
        i == CHOOSE k \in colons : \A j \in colons : j <= k
        closes == Places(address, "]")
        end == CHOOSE k \in closes : \A j \in closes : k <= j
        bracketed == address # <<>> /\ address[1] = "["
        failed == [host |-> <<>>, err |-> TRUE]
    IN  IF colons = {} THEN failed
        ELSE IF bracketed
        THEN IF closes = {} \/ end + 1 # i THEN failed
             ELSE IF \E k \in Places(address, "[") : k > 1 THEN failed
             ELSE IF \E k \in closes : k > end THEN failed
             ELSE [host |-> SubSeq(address, 2, end - 1), err |-> FALSE]
        ELSE IF \E k \in colons : k < i THEN failed
        ELSE IF Places(address, "[") # {} \/ closes # {} THEN failed
        ELSE [host |-> SubSeq(address, 1, i - 1), err |-> FALSE]

\* A peer is <<>> (none) or <<address>>.
remoteIP(peer) ==
    LET address == TrimSpace(peer[1])
        split == SplitHostPort(address)
    IN  IF peer = <<>> THEN <<"unknown">>
        ELSE IF ~split.err /\ split.host # <<>> THEN split.host
        ELSE IF address = <<>> THEN <<"unknown">>
        ELSE address

\* The context holds the principal attached by the Auth stage, and the peer.
limitIdentifier(ctx) ==
    IF ctx.hasPrincipal /\ TrimSpace(ctx.principal.KeyID) # <<>>
    THEN [identifier |-> <<"key:">> \o ctx.principal.KeyID, authenticated |-> TRUE]
    ELSE [identifier |-> <<"ip:">> \o remoteIP(ctx.peer), authenticated |-> FALSE]

minFloat64(a, b) == IF a < b THEN a ELSE b

evictExpiredBuckets(buckets, t, ttl) ==
    [i \in {j \in DOMAIN buckets : ~(t - buckets[j].lastSeen > ttl)} |-> buckets[i]]

\* TokenBucketRateLimiter.Allow at time t: the limiter afterwards, the
\* answer, and the identifier the request was counted under.  The first
\* request of an identifier is let through whatever the burst is.
Allow(l, ctx, t) ==
    LET id == limitIdentifier(ctx)
        rate == IF id.authenticated THEN l.config.AuthenticatedPerSecond
                ELSE l.config.UnauthenticatedPerSecond
        burst == IF id.authenticated THEN l.config.AuthenticatedBurst
                 ELSE l.config.UnauthenticatedBurst
        kept == evictExpiredBuckets(l.buckets, t, l.config.BucketTTL)
        identifier == id.identifier
        put(bucket) == [i \in DOMAIN kept \cup {identifier} |->
                           IF i = identifier THEN bucket ELSE kept[i]]
    IN  IF identifier \notin DOMAIN kept
        THEN [limiter |-> [l EXCEPT !.buckets =
                              put([tokens |-> burst - OneToken, lastRefill |-> t,
                                   lastSeen |-> t])],
              allowed |-> TRUE, identifier |-> identifier]
        ELSE LET bucket == kept[identifier]
                 elapsedSeconds == t - bucket.lastRefill
                 refilled == IF elapsedSeconds > 0
                             THEN [bucket EXCEPT
                                      !.tokens = minFloat64(burst, bucket.tokens
                                                               + elapsedSeconds * rate),
                                      !.lastRefill = t]
                             ELSE bucket
                 seen == [refilled EXCEPT !.lastSeen = t]
             IN  IF seen.tokens < OneToken
                 THEN [limiter |-> [l EXCEPT !.buckets = put(seen)],
                       allowed |-> FALSE, identifier |-> identifier]
                 ELSE [limiter |-> [l EXCEPT !.buckets =
                                       put([seen EXCEPT !.tokens = @ - OneToken])],
                       allowed |-> TRUE, identifier |-> identifier]

\* RateLimitUnaryInterceptor: the status it answers with when it does not
\* call the next stage.
RateLimitUnaryInterceptor(l, ctx, t) ==
    LET a == Allow(l, ctx, t)
    IN  [limiter |-> a.limiter, identifier |-> a.identifier, next |-> a.allowed,
         code |-> IF a.allowed THEN GrpcOK ELSE GrpcResourceExhausted,
         msg |-> IF a.allowed THEN "" ELSE "rate limit exceeded"]

----------------------------------------------------------------------------
(* PostgresStore: the table idempotency_keys, a map from (method, key) to  *)
(* request_hash, response_json and completed (completed_at IS NOT NULL).   *)

\* INSERT ... ON CONFLICT (method, idempotency_key) DO NOTHING: one statement.
PgReserveInsert(table, method, idempotencyKey, requestHash) ==
    LET k == TrimSpace(idempotencyKey)
        key == <<method, k>>
    IN  IF method = "" \/ k = <<>> \/ TrimSpace(requestHash) = <<>>
        THEN [store |-> table, affected |-> 0, err |-> CodeInvalidArgument]
        ELSE IF key \in DOMAIN table
        THEN [store |-> table, affected |-> 0, err |-> OK]
        ELSE [store |-> [x \in DOMAIN table \cup {key} |->
                            IF x = key
                            THEN [RequestHash |-> TrimSpace(requestHash),
                                  ResponseJSON |-> <<>>, Completed |-> FALSE]
                            ELSE table[x]],
              affected |-> 1, err |-> OK]

\* SELECT request_hash, response_json, completed_at IS NOT NULL: a second
\* statement, run when the INSERT affected no row.
PgReserveSelect(table, method, idempotencyKey) ==
    LET key == <<method, TrimSpace(idempotencyKey)>>
    IN  IF key \in DOMAIN table
        THEN [record |-> table[key], created |-> FALSE, err |-> OK]
        ELSE [record |-> EmptyIdempotencyRecord, created |-> FALSE, err |-> CodeNotFound]

\* The two statements with no other statement between them.
PgReserveIdempotencyKey(table, method, idempotencyKey, requestHash) ==
    LET ins == PgReserveInsert(table, method, idempotencyKey, requestHash)
        sel == PgReserveSelect(ins.store, method, idempotencyKey)
    IN  IF ins.err # OK
        THEN [store |-> table, record |-> EmptyIdempotencyRecord, created |-> FALSE,
              err |-> ins.err]
        ELSE IF ins.affected > 0
        THEN [store |-> ins.store, record |-> EmptyIdempotencyRecord, created |-> TRUE,
              err |-> OK]
        ELSE [store |-> table, record |-> sel.record, created |-> FALSE, err |-> sel.err]

\* UPDATE ... WHERE completed_at IS NULL: the first statement of Complete.
PgCompleteUpdate(table, method, idempotencyKey, responseJSON) ==
    LET k == TrimSpace(idempotencyKey)
        key == <<method, k>>
    IN  IF method = "" \/ k = <<>>
        THEN [store |-> table, affected |-> 0, err |-> CodeInvalidArgument]
        ELSE IF key \in DOMAIN table /\ ~table[key].Completed
        THEN [store |-> [table EXCEPT ![key] =
                            [@ EXCEPT !.ResponseJSON = responseJSON, !.Completed = TRUE]],
              affected |-> 1, err |-> OK]
        ELSE [store |-> table, affected |-> 0, err |-> OK]

\* SELECT completed_at IS NOT NULL: a second statement, run when the UPDATE
\* affected no row.  No row is NotFound, a completed row is no error, and a
\* row in progress is Internal.
PgCompleteSelect(table, method, idempotencyKey) ==
    LET key == <<method, TrimSpace(idempotencyKey)>>
    IN  IF key \notin DOMAIN table THEN CodeNotFound
        ELSE IF table[key].Completed THEN OK
        ELSE CodeInternal

\* The two statements with no other statement between them.
PgCompleteIdempotencyKey(table, method, idempotencyKey, responseJSON) ==
    LET upd == PgCompleteUpdate(table, method, idempotencyKey, responseJSON)
    IN  IF upd.err # OK \/ upd.affected > 0
        THEN [store |-> upd.store, err |-> upd.err]
        ELSE [store |-> upd.store,
              err |-> PgCompleteSelect(upd.store, method, idempotencyKey)]

\* DELETE ... WHERE completed_at IS NULL
PgReleaseIdempotencyKey(table, method, idempotencyKey) ==
    LET k == TrimSpace(idempotencyKey)
        key == <<method, k>>
    IN  IF method = "" \/ k = <<>> THEN table
        ELSE IF key \in DOMAIN table /\ ~table[key].Completed
        THEN [x \in DOMAIN table \ {key} |-> table[x]]
        ELSE table

----------------------------------------------------------------------------
(* The state of the outer interceptors when nothing is configured and no   *)
(* request has been seen.                                                  *)

NilKeyAuth == [isNil |-> TRUE, up |-> TRUE, rows |-> <<>>]

NoAuth == [token |-> <<>>, allowLegacyToken |-> FALSE, keyAuth |-> NilKeyAuth]

DefaultLimiter ==
    NewTokenBucketRateLimiter(
        [AuthenticatedPerSecond |-> 20 * OneToken, AuthenticatedBurst |-> 60 * OneToken,
         UnauthenticatedPerSecond |-> 5 * OneToken, UnauthenticatedBurst |-> 20 * OneToken,
         BucketTTL |-> 600])

NoEdge ==
    [stage |-> "", method |-> "", md |-> [token |-> <<>>, authorization |-> <<>>],
     peer |-> <<>>, code |-> "", principal |-> NoPrincipal, hasPrincipal |-> FALSE,
     identifier |-> <<>>, call |-> 0, next |-> FALSE, at |-> 0, up |-> TRUE]

----------------------------------------------------------------------------
(* Requests offered to the idempotency interceptor *)

\* CreateTask "a" with the key k1 in the payload (padded), and with the key
\* k2 in the payload and k1 in the header (the payload wins); CreateTask "b"
\* with the key k1 in the metadata header; CreateTask "" (rejected by the
\* handler) with the key k1 and with no key; DeleteTask with the key k1;
\* ListTasks with the key k1 in the header.
IdemRequest(method, title, id, payloadKey, headerKey) ==
    [method |-> method, title |-> title, status |-> <<>>, id |-> id,
     idempotency_key |-> payloadKey, header_key |-> headerKey]

IdemRequests ==
    {IdemRequest("CreateTask", <<"a">>, <<>>, <<" ", "k1", " ">>, <<>>),
     IdemRequest("CreateTask", <<"a">>, <<>>, <<"k2">>, <<"k1">>),
     IdemRequest("CreateTask", <<>>, <<>>, <<>>, <<>>),
     IdemRequest("CreateTask", <<"b">>, <<>>, <<>>, <<"k1">>),
     IdemRequest("CreateTask", <<>>, <<>>, <<"k1">>, <<>>),
     IdemRequest("DeleteTask", <<>>, IssuedID("task", 1), <<"k1">>, <<>>),
     IdemRequest("ListTasks", <<>>, <<>>, <<>>, <<"k1">>)}

\* domain.EmptyState
EmptyState ==
    [tasks |-> <<>>, runs |-> <<>>, attempts |-> <<>>, runEvents |-> <<>>,
     policy |-> DefaultPolicy, policyCaps |-> <<>>]

\* withDefaults: a policy that was never set is the default policy.  A list
\* that is nil and a list that is empty are both the empty sequence.
withDefaults(state) ==
    IF state.policy.UpdatedAt = <<>> /\ ~state.policy.KillSwitch
    THEN [state EXCEPT !.policy = DefaultPolicy]
    ELSE state

\* A data file is NoFile, when the path holds none, or <<state>>.
NoFile == <<>>

\* FileStore.Load: the state it leaves in the store.
Load(file) == IF file = NoFile THEN EmptyState ELSE withDefaults(file[1])

\* The file Load writes when it finds none.
EmptyFile == <<EmptyState>>

\* A file written by hand: one limit of the policy and nothing else.
BareFile == <<[EmptyState EXCEPT !.policy.MaxAttemptsPerRun = 1]>>

DataFiles == {NoFile, EmptyFile, BareFile}

\* The store as NewFileStore and Load leave it for one of the data files,
\* and the service as NewHubService leaves it.  The idempotency records are
\* kept in memory only: a process starts with none.
InitStore(files) ==
    /\ idempotency = [k \in {} |-> EmptyIdempotencyRecord]
    /\ calls = [c \in CallIds |-> NewCall]
    /\ nextId = [p \in IDPrefixes |-> <<>>]
    /\ now = ClockStart
    /\ \E file \in files :
          /\ tasks = Load(file).tasks
          /\ policy = Load(file).policy
          /\ policyCaps = Load(file).policyCaps
          /\ runs = Load(file).runs
          /\ attempts = Load(file).attempts
          /\ runEvents = Load(file).runEvents
    /\ last = NoCall
    /\ procs = [p \in ProcIds |-> IdleProc]

Init ==
    /\ InitStore(DataFiles)
    /\ auth = NoAuth
    /\ limiter = DefaultLimiter
    /\ passed = [i \in {} |-> <<>>]
    /\ edge = NoEdge
    /\ pgIdempotency = [k \in {} |-> EmptyIdempotencyRecord]

\* Invocations are numbered in the order they arrive.
Arrive(c, req) ==
    /\ \A d \in CallIds : d < c => calls[d].pc # "new"
    /\ Invoke(c, req)

Next ==
    \/ \E c \in CallIds, req \in IdemRequests : Arrive(c, req)
    \/ \E c \in CallIds : Handle(c)
    \/ \E c \in CallIds : Finish(c)

Spec == Init /\ [][Next]_vars

----------------------------------------------------------------------------
(* Properties of the idempotency interceptor *)

\* Two requests carry the same (method, key, payload) of a write method.
Keyed(req) == req.method \in WriteMethods /\ extractIdempotencyKey(req) # <<>>

SameKeyed(r1, r2) ==
    /\ Keyed(r1) /\ Keyed(r2)
    /\ r1.method = r2.method
    /\ extractIdempotencyKey(r1) = extractIdempotencyKey(r2)
    /\ idempotencyRequestHash(r1) = idempotencyRequestHash(r2)

SameKeyOnly(r1, r2) ==
    /\ Keyed(r1) /\ Keyed(r2)
    /\ r1.method = r2.method
    /\ extractIdempotencyKey(r1) = extractIdempotencyKey(r2)

Arrives(c) == calls[c].pc = "new" /\ calls'[c].pc # "new"

ReturnedOK(c) == Done(c) /\ calls[c].code = OK

\* C1: once an invocation with (M, k, p) has returned successfully, every
\* invocation with the same (M, k, p) that arrives later returns at once with
\* a response equal to the first one, the handler is not invoked for it and
\* the tasks are untouched; exactly one handler execution for (M, k, p) has
\* succeeded.
C1_ReplayReturnsFirstResponse ==
    [][\A c \in CallIds, d \in CallIds :
          (Arrives(c) /\ ReturnedOK(d) /\ SameKeyed(calls[d].req, calls'[c].req))
          => /\ calls'[c].pc = "done"
             /\ calls'[c].code = OK
             /\ calls'[c].response = calls[d].response
             /\ ~calls'[c].ranHandler
             /\ tasks' = tasks
             /\ Cardinality({e \in CallIds : /\ calls[e].handlerOK
                                             /\ SameKeyed(calls[e].req, calls[d].req)}) = 1]_vars

\* A replay has been answered from the record of an earlier invocation.
C1_Witness ==
    \E c \in CallIds, d \in CallIds :
        /\ c # d /\ ReturnedOK(c) /\ ReturnedOK(d)
        /\ SameKeyed(calls[c].req, calls[d].req)
        /\ calls[d].ranHandler /\ ~calls[c].ranHandler
        /\ calls[c].response = calls[d].response
        /\ calls[c].response.fields # <<>>

\* The record of the key of a request, when there is one.
HasRecord(req) ==
    fileIdempotencyRecordKey(req.method, extractIdempotencyKey(req)) \in DOMAIN idempotency

RecordOf(req) == idempotency[fileIdempotencyRecordKey(req.method, extractIdempotencyKey(req))]

\* C2: an invocation of a write method that finds a record of its (M, k),
\* in progress or completed, with another request hash returns Conflict, its
\* handler is not invoked, and the idempotency records and the tasks are
\* unchanged.
C2_MismatchIsConflict ==
    [][\A c \in CallIds :
          (/\ Arrives(c) /\ Keyed(calls'[c].req) /\ HasRecord(calls'[c].req)
           /\ RecordOf(calls'[c].req).RequestHash # idempotencyRequestHash(calls'[c].req))
          => /\ calls'[c].pc = "done"
             /\ calls'[c].code = CodeConflict
             /\ ~calls'[c].ranHandler
             /\ idempotency' = idempotency
             /\ tasks' = tasks]_vars

\* Two CreateTask invocations with one key and two titles: the first has
\* created its task, the second has been refused, one task exists.
C2_Witness ==
    \E c \in CallIds, d \in CallIds :
        /\ ReturnedOK(c) /\ calls[c].handlerOK /\ calls[c].req.method = "CreateTask"
        /\ Done(d) /\ calls[d].code = CodeConflict /\ calls[d].req.method = "CreateTask"
        /\ SameKeyOnly(calls[c].req, calls[d].req)
        /\ calls[c].req.title # calls[d].req.title
        /\ HasRecord(calls[c].req) /\ RecordOf(calls[c].req).Completed
        /\ Len(tasks) = 1 /\ tasks[1].title = TrimSpace(calls[c].req.title)

----------------------------------------------------------------------------
(* The run engine.  Every access of a method to the store is one step, and  *)
(* the steps of concurrent callers interleave.                              *)

CurrentStore ==
    [policy |-> policy, policyCaps |-> policyCaps, runs |-> runs, attempts |-> attempts,
     runEvents |-> runEvents, nextId |-> nextId]

\* FileStore.Mutate up to its last line: the state in memory becomes what
\* withDefaults returns, before the data file is written and whether or not
\* it will be; what persistLocked then returns is the saved of the step.
SetStore(S) ==
    /\ policy' = withDefaults(S).policy
    /\ policyCaps' = S.policyCaps
    /\ runs' = S.runs
    /\ attempts' = S.attempts
    /\ runEvents' = S.runEvents
    /\ nextId' = S.nextId

\* The clock advances by a millisecond.
Tick ==
    /\ now < ClockStart + MaxTime - 1
    /\ now' = now + 1
    /\ UNCHANGED <<idemVars, nextId, policy, policyCaps, runs, attempts, runEvents, last,
                   procs, edgeVars>>

StartRunRequest(workflow, agentID, maxRetries) ==
    [Workflow |-> workflow, AgentID |-> agentID, MaxRetries |-> maxRetries]

FinishRunRequest(runID, status, lastError) ==
    [RunID |-> runID, Status |-> status, LastError |-> lastError]

AttemptRequest(runID, model, outcome, tokensIn, tokensOut, cost, latency) ==
    [RunID |-> runID, AttemptNumber |-> 1, ProviderType |-> <<>>, Provider |-> <<>>,
     Model |-> model, Outcome |-> outcome, TokensIn |-> tokensIn, TokensOut |-> tokensOut,
     CostUSD |-> cost, LatencyMS |-> latency]

RunEventRequest(runID, eventType, level) ==
    [RunID |-> runID, EventType |-> eventType, Level |-> level, Message |-> <<"m">>,
     DataJSON |-> <<>>]

PolicyRequest(killSwitch, reason, maxAttempts) ==
    [KillSwitch |-> killSwitch, KillSwitchReason |-> reason, MaxCostPerRunUSD |-> Nil,
     MaxAttemptsPerRun |-> maxAttempts, MaxTokensPerRun |-> Nil,
     MaxLatencyPerAttemptMS |-> Nil]

\* The run identifiers a client names: the first one newID hands out,
\* padded with a blank, and one that no run has.
FirstRunID == <<" ">> \o IssuedID("run", 1)

UnknownRunID == <<"run", "none">>

StartRunRequests ==
    {StartRunRequest(<<" ", "mvp">>, <<"agent">>, 0),
     StartRunRequest(<<" ">>, <<"agent">>, 0),
     StartRunRequest(<<"mvp">>, <<"agent">>, -1)}

FinishRunRequests ==
    {FinishRunRequest(FirstRunID, <<>>, <<>>),
     FinishRunRequest(FirstRunID, <<"failed">>, <<"boom", " ">>),
     FinishRunRequest(FirstRunID, <<"running">>, <<>>),
     FinishRunRequest(UnknownRunID, <<>>, <<>>)}

AttemptRequests ==
    {AttemptRequest(FirstRunID, <<"m1">>, <<"success">>, 1, 1, 1, 1),
     AttemptRequest(FirstRunID, <<"m1">>, <<"timeout">>, 2, 0, 0, 1),
     AttemptRequest(UnknownRunID, <<"m1">>, <<"success">>, 1, 1, 1, 1),
     AttemptRequest(FirstRunID, <<>>, <<"success">>, 1, 1, 1, 1),
     AttemptRequest(FirstRunID, <<"m1">>, <<"success">>, -1, 1, 1, 1)}

RunEventRequests ==
    {RunEventRequest(FirstRunID, <<"note">>, <<>>),
     RunEventRequest(UnknownRunID, <<"note">>, <<>>)}

\* The attempts of the life of a run: a success, a timeout, and one for a
\* run that does not exist.
RunAttemptRequests ==
    {AttemptRequest(FirstRunID, <<"m1">>, <<"success">>, 1, 1, 1, 1),
     AttemptRequest(FirstRunID, <<"m1">>, <<"timeout">>, 2, 0, 0, 1),
     AttemptRequest(UnknownRunID, <<"m1">>, <<"success">>, 1, 1, 1, 1)}

KillSwitchRequests ==
    {PolicyRequest(<<TRUE>>, <<<<" ", "halt", " ">>>>, Nil),
     PolicyRequest(<<TRUE>>, <<<<" ">>>>, Nil),
     PolicyRequest(<<FALSE>>, Nil, Nil),
     PolicyRequest(Nil, Nil, <<-1>>)}

\* The dry-run events stored.
LoggedViolations ==
    SelectSeq(runEvents, LAMBDA e : e.EventType = <<"policy_cap_violation_dry_run">>)

\* A request that names a cap not yet stored adds one to the list.
AddsCap(req) ==
    \/ TrimSpace(req.ID) = <<>>
    \/ \A i \in 1..Len(policyCaps) : policyCaps[i].ID # TrimSpace(req.ID)

InFlight(op) == Cardinality({p \in ProcIds : procs[p].op = op /\ procs[p].pc # "done"})

\* A caller sends a request.  Runs, attempts, events and caps stop at their
\* bounds; a run's counters grow with every FinishRun, which stops at MaxCounted; a
\* refused attempt may still log dry-run events, which stop at MaxLogged.
Begin(p, op, req) ==
    /\ procs[p].pc \in {"idle", "done"}
    /\ op = "StartRun" => Len(runs) + InFlight("StartRun") < MaxRuns
    /\ op = "RecordPromptAttempt" =>
           /\ Len(attempts) + InFlight("RecordPromptAttempt") < MaxAttempts
           /\ Len(LoggedViolations) < MaxLogged
    /\ op = "RecordRunEvent" => Len(runEvents) + InFlight("RecordRunEvent") < MaxEvents
    /\ op = "FinishRun" => \A i \in 1..Len(runs) : runs[i].TotalAttempts < MaxCounted
    /\ (op = "UpsertPolicyCap" /\ AddsCap(req)) =>
           Len(policyCaps) + InFlight("UpsertPolicyCap") < MaxCaps
    /\ procs' = [procs EXCEPT ![p] = NewProc(op, req)]
    /\ UNCHANGED <<idemVars, nextId, now, policy, policyCaps, runs, attempts, runEvents,
                   last, edgeVars>>

\* One step of one call.  Until it returns, the call's record keeps what
\* the call has read and written.  A step that writes the store changes the
\* state in memory and then either writes the data file or fails to.
ProcStep(p) ==
    /\ procs[p].pc \notin {"idle", "done"}
    /\ \E random \in (IF Makes(procs[p]) = "" THEN {0}
                       ELSE RandomDraws(nextId[Makes(procs[p])], now)),
          saved \in (IF Mutates(procs[p]) THEN PersistOutcomes ELSE {"saved"}) :
         \E r \in {Step(procs[p], CurrentStore, now, random, saved)} :
           \E read \in {Observe(procs[p], CurrentStore)} :
               \E wrote \in {Note(procs[p], CurrentStore, r.S)} :
                   /\ SetStore(r.S)
                   /\ procs' = [procs EXCEPT ![p] =
                          IF r.p.pc = "done"
                          THEN [r.p EXCEPT !.read = <<>>, !.wrote = NoWrites]
                          ELSE [r.p EXCEPT !.read = read, !.wrote = wrote]]
    /\ UNCHANGED <<idemVars, now, last, edgeVars>>

\* The step in which the call of p returns, and the call as it returns:
\* the request, the answer, what the call read and what it wrote.  For a
\* collection the call never read, read has what the collection held before
\* the call's last step.
Answered(p) == procs[p].pc \notin {"idle", "done"} /\ procs'[p].pc = "done"

AnswerOf(p) ==
    [op |-> procs[p].op, req |-> procs[p].req, code |-> procs'[p].code,
     msg |-> procs'[p].msg, out |-> procs'[p].out,
     read |-> Observe(procs[p], CurrentStore) @@ [f \in StoreFields |-> CurrentStore[f]],
     wrote |-> Note(procs[p], CurrentStore, CurrentStore')]

Answers == {AnswerOf(p) : p \in {q \in ProcIds : Answered(q)}}

\* The calls that have returned, each with the store as it is now for what
\* it read.
Finished ==
    {[procs[p] EXCEPT !.read = [f \in StoreFields |-> CurrentStore[f]]] :
        p \in {q \in ProcIds : procs[q].pc = "done"}}

\* The caller whose requests a specification varies; the callers beside it
\* send the few requests the specification names.
Caller == CHOOSE p \in ProcIds : \A q \in ProcIds : p <= q

Beside(requests) ==
    \E p \in ProcIds \ {Caller} : \E c \in requests : Begin(p, c[1], c[2])

Proceed == \E p \in ProcIds : ProcStep(p)

StartRunCall(req) == Begin(Caller, "StartRun", req)

FinishRunCall(req) == Begin(Caller, "FinishRun", req)

RecordPromptAttemptCall(req) == Begin(Caller, "RecordPromptAttempt", req)

RecordRunEventCall(req) == Begin(Caller, "RecordRunEvent", req)

SetPolicyCall(req) == Begin(Caller, "SetPolicy", req)

\* A caller beside the first one finishes the run.
BesideRun ==
    {<<"FinishRun", FinishRunRequest(FirstRunID, <<>>, <<>>)>>}

\* The life of a run: start, attempts, events, finish, within one
\* millisecond of the clock.
NextRun ==
    \/ \E req \in StartRunRequests : StartRunCall(req)
    \/ \E req \in FinishRunRequests : FinishRunCall(req)
    \/ \E req \in RunAttemptRequests : RecordPromptAttemptCall(req)
    \/ \E req \in RunEventRequests : RecordRunEventCall(req)
    \/ Beside(BesideRun)
    \/ Proceed

SpecRun == Init /\ [][NextRun]_vars

\* What the callers beside the first one do to the kill switch.
BesideKill ==
    {<<"SetPolicy", PolicyRequest(<<TRUE>>, <<<<"halt">>>>, Nil)>>,
     <<"SetPolicy", PolicyRequest(<<FALSE>>, Nil, Nil)>>}

\* The kill switch: turned on and off between starts and attempts.
NextKill ==
    \/ \E req \in KillSwitchRequests : SetPolicyCall(req)
    \/ \E req \in StartRunRequests : StartRunCall(req)
    \/ \E req \in AttemptRequests : RecordPromptAttemptCall(req)
    \/ Beside(BesideKill)
    \/ Proceed

SpecKill == Init /\ [][NextKill]_vars

----------------------------------------------------------------------------
(* The run engine with every caller sending the same requests *)

ConcurrentCalls ==
    {<<"StartRun", StartRunRequest(<<"mvp">>, <<"agent">>, 0)>>,
     <<"RecordPromptAttempt", AttemptRequest(FirstRunID, <<"m1">>, <<"success">>, 1, 1, 1, 1)>>,
     <<"RecordPromptAttempt", AttemptRequest(FirstRunID, <<"m1">>, <<"failed">>, 1, 0, 0, 1)>>,
     <<"FinishRun", FinishRunRequest(FirstRunID, <<>>, <<>>)>>}

NextConc ==
    \/ \E p \in ProcIds, c \in ConcurrentCalls : Begin(p, c[1], c[2])
    \/ \E p \in ProcIds : ProcStep(p)

SpecConc == Init /\ [][NextConc]_vars

----------------------------------------------------------------------------
(* Properties of the run lifecycle *)

Terminal(status) == status \in {<<"completed">>, <<"failed">>, <<"cancelled">>}

\* What is final about a finished run: status, finished_at, last_error, counters.
FinalFields(run) ==
    <<run.Status, run.FinishedAt, run.LastError, run.TotalAttempts, run.SuccessAttempts,
      run.FailedAttempts, run.TotalTokensIn, run.TotalTokensOut, run.TotalCostUSD>>

\* C4: once a run is completed, failed or cancelled, no call of StartRun,
\* FinishRun, RecordPromptAttempt or RecordRunEvent changes its status,
\* finished_at, last_error or counters.
C4_TerminalIsFinal ==
    [][\A i \in 1..Len(runs) :
          Terminal(runs[i].Status) =>
              /\ i <= Len(runs')
              /\ runs'[i].ID = runs[i].ID
              /\ FinalFields(runs'[i]) = FinalFields(runs[i])]_vars

WroteNothing(c) == c.wrote = NoWrites

\* The call c handed a record to the store, the store did not write its data
\* file, and the call answered with the store's error.
WriteFailed(c) ==
    /\ c.code = CodeInternal
    /\ \E saved \in PersistOutcomes \ {"saved"} : c.msg = PersistFailure(saved)

RunsIn(items, runID) == SelectSeq(items, LAMBDA r : r.ID = runID)

AttemptsIn(items, runID) == SelectSeq(items, LAMBDA a : a.RunID = runID)

SuccessfulIn(items, runID) ==
    SelectSeq(items, LAMBDA a : a.RunID = runID /\ a.Outcome = <<"success">>)

StoredRun(runID) == SelectSeq(runs, LAMBDA r : r.ID = runID)

AttemptsOf(runID) == SelectSeq(attempts, LAMBDA a : a.RunID = runID)

SuccessesOf(runID) ==
    SelectSeq(attempts, LAMBDA a : a.RunID = runID /\ a.Outcome = <<"success">>)

\* C5: the run R that a successful FinishRun(R) stores has total_attempts =
\* the number of stored attempts of R the call found, success_attempts = the
\* number of those with outcome success, and failed_attempts =
\* total_attempts - success_attempts.
C5_CountersMatchAttempts ==
    [][\A c \in Answers :
          (c.op = "FinishRun" /\ c.code = OK) =>
              \A i \in 1..Len(c.wrote.runs) :
                  LET runID == TrimSpace(c.req.RunID)
                      run == c.wrote.runs[i]
                  IN  /\ run.TotalAttempts = Len(AttemptsIn(c.read.attempts, runID))
                      /\ run.SuccessAttempts = Len(SuccessfulIn(c.read.attempts, runID))
                      /\ run.FailedAttempts = run.TotalAttempts - run.SuccessAttempts]_vars

\* C6: under every interleaving of RecordPromptAttempt and FinishRun on a
\* run R, every attempt of R is inserted while the stored status of R is
\* running: none is persisted after FinishRun(R) has committed.
C6_NoAttemptAfterFinish ==
    [][\A i \in (Len(attempts) + 1)..Len(attempts') :
          \E j \in 1..Len(runs) :
              /\ runs[j].ID = attempts'[i].RunID
              /\ runs[j].Status = <<"running">>]_vars

----------------------------------------------------------------------------
(* Properties of the kill switch *)

PassesValidation(op, req) ==
    IF op = "StartRun"
    THEN /\ TrimSpace(req.Workflow) # <<>>
         /\ TrimSpace(req.AgentID) # <<>>
         /\ req.MaxRetries >= 0
    ELSE RecordPromptAttemptValidation(req) = <<>>

\* C7: every StartRun and every RecordPromptAttempt that passes field
\* validation and finds policy.kill_switch true fails with
\* FailedPrecondition, the message being kill_switch_reason or "kill switch
\* is enabled" when the reason is empty, whether or not the run exists, and
\* stores no run, attempt or event; once SetPolicy has cleared the switch the
\* same requests are accepted: StartRun stores a run, RecordPromptAttempt
\* stores an attempt for a run that exists.
C7_KillSwitchRejects ==
    [][\A c \in Answers :
          (c.op \in {"StartRun", "RecordPromptAttempt"} /\ PassesValidation(c.op, c.req)) =>
              IF c.read.policy.KillSwitch
              THEN /\ c.code = CodeFailedPrecondition
                   /\ c.msg = IF c.read.policy.KillSwitchReason = <<>>
                              THEN <<"kill switch is enabled">>
                              ELSE c.read.policy.KillSwitchReason
                   /\ WroteNothing(c)
              ELSE IF c.op = "StartRun"
              THEN c.code = OK /\ Len(c.wrote.runs) = 1
              ELSE IF RunsIn(c.read.runs, TrimSpace(c.req.RunID)) # <<>>
              THEN c.code = OK /\ Len(c.wrote.attempts) = 1
              ELSE c.code = CodeNotFound /\ WroteNothing(c)]_vars

\* C7, with the failure of the store: every StartRun and every
\* RecordPromptAttempt that passes field validation and finds
\* policy.kill_switch true fails with FailedPrecondition, the message being
\* kill_switch_reason or "kill switch is enabled" when the reason is empty,
\* whether or not the run exists, and stores no run, attempt or event; once
\* SetPolicy has cleared the switch the same requests reach the store:
\* StartRun hands it a run, RecordPromptAttempt an attempt for a run that
\* exists, and the call succeeds unless the store fails to write the data
\* file, when it answers Internal.
C7_KillSwitchRejectsUntilCleared ==
    [][\A c \in Answers :
          (c.op \in {"StartRun", "RecordPromptAttempt"} /\ PassesValidation(c.op, c.req)) =>
              IF c.read.policy.KillSwitch
              THEN /\ c.code = CodeFailedPrecondition
                   /\ c.msg = IF c.read.policy.KillSwitchReason = <<>>
                              THEN <<"kill switch is enabled">>
                              ELSE c.read.policy.KillSwitchReason
                   /\ WroteNothing(c)
              ELSE IF c.op = "StartRun"
              THEN (c.code = OK \/ WriteFailed(c)) /\ Len(c.wrote.runs) = 1
              ELSE IF RunsIn(c.read.runs, TrimSpace(c.req.RunID)) # <<>>
              THEN (c.code = OK \/ WriteFailed(c)) /\ Len(c.wrote.attempts) = 1
              ELSE c.code = CodeNotFound /\ WroteNothing(c)]_vars

\* The switch was set with the reason halt and cleared again, and a StartRun
\* that found it cleared reached the store, which failed to write the file.
C7_Witness ==
    \E c \in Finished :
        /\ c.op = "StartRun"
        /\ WriteFailed(c)
        /\ ~policy.KillSwitch
        /\ policy.KillSwitchReason = <<"halt">>
        /\ Len(runs) = 1

----------------------------------------------------------------------------
(* Policy caps: stored by UpsertPolicyCap in the order of the calls, and   *)
(* resolved for a (provider_type, provider, model) as RecordPromptAttempt  *)
(* resolves them.                                                          *)

CapRequest(id, providerType, provider, model, priority) ==
    [ID |-> id, Name |-> <<>>, ProviderType |-> providerType, Provider |-> provider,
     Model |-> model, MaxCostPerRunUSD |-> Nil, MaxAttemptsPerRun |-> Nil,
     MaxTokensPerRun |-> Nil, MaxCostPerAttemptUSD |-> Nil, MaxTokensPerAttempt |-> Nil,
     MaxLatencyPerAttemptMS |-> Nil, Priority |-> priority, DryRun |-> Nil,
     IsActive |-> Nil]

CapRequests ==
    {CapRequest(<<"a">>, <<>>, <<>>, <<"m1">>, <<1>>),
     CapRequest(<<" ", "b">>, <<>>, <<>>, <<"m1">>, <<1>>),
     CapRequest(<<"b">>, <<>>, <<>>, <<>>, <<2>>),
     CapRequest(<<"c">>, <<"api">>, <<>>, <<"m1">>, Nil),
     CapRequest(<<"c">>, <<"cloud">>, <<>>, <<>>, Nil),
     CapRequest(<<>>, <<>>, <<"p1">>, <<>>, <<1>>),
     [CapRequest(<<"a">>, <<>>, <<>>, <<>>, Nil) EXCEPT !.IsActive = <<FALSE>>],
     [CapRequest(<<"a">>, <<>>, <<>>, <<>>, Nil) EXCEPT !.MaxTokensPerRun = <<-1>>]}

DeleteCapRequest(id) == [ID |-> id]

\* Deletions of a stored cap, of a cap that is not stored, and of no cap.
DeleteCapRequests ==
    {DeleteCapRequest(<<"a">>), DeleteCapRequest(<<" ", "b">>), DeleteCapRequest(<<"z">>),
     DeleteCapRequest(<<" ">>)}

UpsertPolicyCapCall(req) == Begin(Caller, "UpsertPolicyCap", req)

DeletePolicyCapCall(req) == Begin(Caller, "DeletePolicyCap", req)


Selectors ==
    {[ProviderType |-> <<"api">>, Provider |-> <<>>, Model |-> <<"m1">>],
     [ProviderType |-> <<"api">>, Provider |-> <<"p1">>, Model |-> <<"m2">>],
     [ProviderType |-> <<"subscription">>, Provider |-> <<"p1">>, Model |-> <<"m1">>]}

\* Attempts that make RecordPromptAttempt resolve the stored caps for each
\* selector; they name a run that does not exist and store nothing.
SelectorAttempts ==
    {[AttemptRequest(UnknownRunID, sel.Model, <<"success">>, 1, 1, 1, 1)
         EXCEPT !.ProviderType = sel.ProviderType, !.Provider = sel.Provider] :
        sel \in Selectors}

\* A caller beside the first one deletes a cap.
BesideCaps == {<<"DeletePolicyCap", DeleteCapRequest(<<"a">>)>>}

NextCap ==
    \/ \E req \in CapRequests : UpsertPolicyCapCall(req)
    \/ \E req \in DeleteCapRequests : DeletePolicyCapCall(req)
    \/ \E req \in SelectorAttempts : RecordPromptAttemptCall(req)
    \/ Beside(BesideCaps)
    \/ Proceed

SpecCap == Init /\ [][NextCap]_vars

----------------------------------------------------------------------------
(* Properties of cap selection *)

\* The orderings of a list.
Orderings(list) ==
    {[i \in 1..Len(list) |-> list[f[i]]] :
        f \in {g \in [1..Len(list) -> 1..Len(list)] :
                  \A i, j \in 1..Len(list) : i # j => g[i] # g[j]}}

\* The caps that are active, match the selector and are beaten by no other
\* on specificity, then priority.
BestCaps(list, sel) ==
    LET live == {i \in 1..Len(list) :
                    CapMatches(list[i], sel.ProviderType, sel.Provider, sel.Model)}
        beats(i, j) ==
            \/ Specificity(list[i]) > Specificity(list[j])
            \/ /\ Specificity(list[i]) = Specificity(list[j])
               /\ list[i].Priority > list[j].Priority
    IN  {list[i] : i \in {k \in live : \A j \in live : ~beats(j, k)}}

\* The calls of RecordPromptAttempt that have read the caps and resolved
\* them, and for each the selector of its request, the list it read and the
\* cap it keeps.
Resolved == {p \in ProcIds : procs[p].op = "RecordPromptAttempt" /\ procs[p].pc = "run"}

Resolution(p) ==
    [req |-> [ProviderType |-> IF TrimSpace(procs[p].req.ProviderType) = <<>>
                               THEN <<"api">>
                               ELSE TrimSpace(procs[p].req.ProviderType),
              Provider |-> TrimSpace(procs[p].req.Provider),
              Model |-> TrimSpace(procs[p].req.Model)],
     caps |-> procs[p].read.policyCaps,
     out |-> [cap |-> procs[p].loc.cap, found |-> procs[p].loc.hasCap]]

\* C8: the cap selected does not depend on the order of the cap list, and
\* among the active matching caps that tie on specificity and priority the
\* one with the lowest id is selected.
C8_SelectionIgnoresOrder ==
    \A p \in Resolved :
        LET sel == Resolution(p)
        IN  /\ \A list \in Orderings(sel.caps) :
                   selectPolicyCap(list, sel.req.ProviderType, sel.req.Provider,
                                   sel.req.Model) = sel.out
            /\ sel.out.found =>
                   \A cap \in BestCaps(sel.caps, sel.req) :
                       cap.ID = sel.out.cap.ID \/ LowerID(sel.out.cap.ID, cap.ID)

----------------------------------------------------------------------------
(* Policy enforcement: limits of the global policy and of one cap, set and *)
(* changed between the attempts of a run.                                  *)

LimitsRequest(cost, maxAttempts, tokens, latency) ==
    [KillSwitch |-> Nil, KillSwitchReason |-> Nil, MaxCostPerRunUSD |-> cost,
     MaxAttemptsPerRun |-> maxAttempts, MaxTokensPerRun |-> tokens,
     MaxLatencyPerAttemptMS |-> latency]

LimitsRequests ==
    {LimitsRequest(Nil, <<1>>, Nil, <<1>>),
     LimitsRequest(<<2>>, Nil, <<3>>, Nil),
     LimitsRequest(<<0>>, <<0>>, <<0>>, <<0>>)}

\* Requests on the cap "a" of model m1: limits in three groups, and all
\* limits back to zero.
CapA == CapRequest(<<"a">>, <<>>, <<>>, <<"m1">>, Nil)

CapLimitRequests ==
    {[CapA EXCEPT !.MaxCostPerAttemptUSD = <<1>>, !.MaxTokensPerAttempt = <<2>>],
     [CapA EXCEPT !.MaxLatencyPerAttemptMS = <<1>>, !.MaxAttemptsPerRun = <<1>>],
     [CapA EXCEPT !.MaxCostPerRunUSD = <<2>>, !.MaxTokensPerRun = <<3>>],
     [CapA EXCEPT !.MaxCostPerAttemptUSD = <<0>>, !.MaxTokensPerAttempt = <<0>>,
                  !.MaxLatencyPerAttemptMS = <<0>>, !.MaxAttemptsPerRun = <<0>>,
                  !.MaxCostPerRunUSD = <<0>>, !.MaxTokensPerRun = <<0>>]}

\* The requests that set the cap's limits on one attempt, each also making
\* the cap dry-run, and the request that ends the dry run.
DryCapRequests ==
    {[req EXCEPT !.DryRun = <<TRUE>>] :
        req \in {r \in CapLimitRequests :
                    r.MaxCostPerAttemptUSD = <<1>> \/ r.MaxLatencyPerAttemptMS = <<1>>}}
    \cup {[CapA EXCEPT !.DryRun = <<FALSE>>]}

LimitedAttempts ==
    {AttemptRequest(FirstRunID, <<"m1">>, <<"success">>, 1, 1, 1, 1),
     AttemptRequest(FirstRunID, <<"m1">>, <<"failed">>, 2, 1, 1, 1),
     AttemptRequest(FirstRunID, <<"m1">>, <<"failed">>, 1, 1, 2, 2),
     AttemptRequest(FirstRunID, <<"m2">>, <<"success">>, 1, 1, 1, 1),
     AttemptRequest(FirstRunID, <<"m1">>, <<"success">>, 1, 1, 1, -1)}

\* One run is started: its attempts are checked against the limits.
StartFirstRun ==
    /\ runs = <<>>
    /\ StartRunCall(StartRunRequest(<<"mvp">>, <<"agent">>, 0))

\* Enforcing limits: of the global policy and of a cap.
NextLimits ==
    \/ StartFirstRun
    \/ \E req \in LimitsRequests : SetPolicyCall(req)
    \/ \E req \in CapLimitRequests : UpsertPolicyCapCall(req)
    \/ \E req \in LimitedAttempts : RecordPromptAttemptCall(req)
    \/ Beside(BesideCaps)
    \/ Proceed

SpecLimits == Init /\ [][NextLimits]_vars

\* The attempts of model m1 that pass the checks of their own fields.
ValidAttempts ==
    {req \in LimitedAttempts :
        req.Model = <<"m1">> /\ RecordPromptAttemptValidation(req) = <<>>}

\* A dry-run cap, beside a global policy that limits attempts and latency.
NextDry ==
    \/ StartFirstRun
    \/ SetPolicyCall(LimitsRequest(Nil, <<1>>, Nil, <<1>>))
    \/ \E req \in DryCapRequests : UpsertPolicyCapCall(req)
    \/ \E req \in ValidAttempts : RecordPromptAttemptCall(req)
    \/ Beside(BesideCaps)
    \/ Proceed

SpecDry == Init /\ [][NextDry]_vars

----------------------------------------------------------------------------
(* Properties of policy enforcement *)

\* What RecordPromptAttempt resolves for the request of a call c from what
\* the call read: the cap and the limits.
SelectedFor(c) ==
    selectPolicyCap(c.read.policyCaps,
                    IF TrimSpace(c.req.ProviderType) = <<>> THEN <<"api">>
                    ELSE TrimSpace(c.req.ProviderType),
                    TrimSpace(c.req.Provider), TrimSpace(c.req.Model))

LimitsFor(c) ==
    resolveEffectiveLimits(c.read.policy, SelectedFor(c).cap, SelectedFor(c).found)

TokensOf(list) == SumTokens(list, 1)

CostOf(list) == SumCost(list, 1)

\* The attempts of the call's run that the call found stored.
Counted(c) == AttemptsIn(c.read.attempts, TrimSpace(c.req.RunID))

\* The six limits: its effective value, the value of the request measured
\* against it, and its value in the selected cap.
LimitNames == {"latency", "attempt_cost", "attempt_tokens", "attempts", "cost", "tokens"}

Effective(name, c) ==
    CASE name = "latency" -> LimitsFor(c).MaxLatencyPerAttemptMS
      [] name = "attempt_cost" -> LimitsFor(c).MaxCostPerAttemptUSD
      [] name = "attempt_tokens" -> LimitsFor(c).MaxTokensPerAttempt
      [] name = "attempts" -> LimitsFor(c).MaxAttemptsPerRun
      [] name = "cost" -> LimitsFor(c).MaxCostPerRunUSD
      [] name = "tokens" -> LimitsFor(c).MaxTokensPerRun

Measured(name, c) ==
    CASE name = "latency" -> c.req.LatencyMS
      [] name = "attempt_cost" -> c.req.CostUSD
      [] name = "attempt_tokens" -> c.req.TokensIn + c.req.TokensOut
      [] name = "attempts" -> Len(Counted(c)) + 1
      [] name = "cost" -> CostOf(Counted(c)) + c.req.CostUSD
      [] name = "tokens" -> TokensOf(Counted(c)) + c.req.TokensIn + c.req.TokensOut

InCap(name, cap) ==
    CASE name = "latency" -> cap.MaxLatencyPerAttemptMS
      [] name = "attempt_cost" -> cap.MaxCostPerAttemptUSD
      [] name = "attempt_tokens" -> cap.MaxTokensPerAttempt
      [] name = "attempts" -> cap.MaxAttemptsPerRun
      [] name = "cost" -> cap.MaxCostPerRunUSD
      [] name = "tokens" -> cap.MaxTokensPerRun

ViolatedLimits(c) ==
    {name \in LimitNames : Effective(name, c) > 0 /\ Measured(name, c) > Effective(name, c)}

\* The call is a valid attempt that found the kill switch off and its run
\* stored and running: it reaches the limit checks.
ReachesLimits(c) ==
    /\ c.op = "RecordPromptAttempt"
    /\ RecordPromptAttemptValidation(c.req) = <<>>
    /\ ~c.read.policy.KillSwitch
    /\ RunsIn(c.read.runs, TrimSpace(c.req.RunID)) # <<>>
    /\ RunsIn(c.read.runs, TrimSpace(c.req.RunID))[1].Status = <<"running">>

DryRunSelected(c) == SelectedFor(c).found /\ SelectedFor(c).cap.DryRun

\* C9: with no dry-run cap selected, RecordPromptAttempt on a running run
\* fails with ResourceExhausted and stores no attempt whenever one of the
\* six effective limits is positive and violated; so an attempt that is
\* accepted makes, with the attempts of the run it was checked against, at
\* most max_attempts_per_run attempts and at most max_tokens_per_run tokens.
C9_LimitsEnforced ==
    [][\A c \in Answers :
          (ReachesLimits(c) /\ ~DryRunSelected(c)) =>
              /\ ViolatedLimits(c) # {} =>
                     /\ c.code = CodeResourceExhausted
                     /\ c.wrote.attempts = <<>>
                     /\ c.wrote.runEvents = <<>>
              /\ c.wrote.attempts # <<>> =>
                     LET stored == Counted(c) \o c.wrote.attempts
                     IN  /\ LimitsFor(c).MaxAttemptsPerRun > 0 =>
                                Len(stored) <= LimitsFor(c).MaxAttemptsPerRun
                         /\ LimitsFor(c).MaxTokensPerRun > 0 =>
                                TokensOf(stored) <= LimitsFor(c).MaxTokensPerRun]_vars

\* A second attempt has been refused for the run's tokens under the global
\* policy, the first one being stored.
C9_Witness ==
    \E c \in Finished :
        /\ c.op = "RecordPromptAttempt"
        /\ c.code = CodeResourceExhausted
        /\ c.msg = <<"run exceeds max tokens cap (", "global-policy", ")">>
        /\ Len(Counted(c)) = 1
        /\ ~DryRunSelected(c)

\* C10: when the selected cap is dry-run and every violated limit has its
\* value from that cap, RecordPromptAttempt succeeds and stores the attempt,
\* and stores for each violated limit one event of type
\* policy_cap_violation_dry_run, level warn, with the run's id and a payload
\* holding the cap's id.
C10_DryRunLogsAndAccepts ==
    [][\A c \in Answers :
          (/\ ReachesLimits(c)
           /\ DryRunSelected(c)
           /\ \A name \in ViolatedLimits(c) : InCap(name, SelectedFor(c).cap) > 0) =>
              /\ c.code = OK
              /\ Len(c.wrote.attempts) = 1
              /\ c.wrote.attempts[1].RunID = TrimSpace(c.req.RunID)
              /\ Len(c.wrote.runEvents) = Cardinality(ViolatedLimits(c))
              /\ \A i \in 1..Len(c.wrote.runEvents) :
                     /\ c.wrote.runEvents[i].EventType = <<"policy_cap_violation_dry_run">>
                     /\ c.wrote.runEvents[i].Level = <<"warn">>
                     /\ c.wrote.runEvents[i].RunID = TrimSpace(c.req.RunID)
                     /\ jsonUnmarshal(c.wrote.runEvents[i].DataJSON).cap_id =
                            SelectedFor(c).cap.ID]_vars

\* C10, with the failure of the store: when the selected cap is dry-run and
\* every violated limit has its value from that cap, RecordPromptAttempt
\* hands the store, for each violated limit, one event of type
\* policy_cap_violation_dry_run, level warn, with the run's id and a payload
\* holding the cap's id, and then the attempt; it succeeds unless the store
\* fails to write the data file for the attempt, when it answers Internal.
C10_DryRunLogsAndAcceptsUnlessWriteFails ==
    [][\A c \in Answers :
          (/\ ReachesLimits(c)
           /\ DryRunSelected(c)
           /\ \A name \in ViolatedLimits(c) : InCap(name, SelectedFor(c).cap) > 0) =>
              /\ c.code = OK \/ WriteFailed(c)
              /\ Len(c.wrote.attempts) = 1
              /\ c.wrote.attempts[1].RunID = TrimSpace(c.req.RunID)
              /\ Len(c.wrote.runEvents) = Cardinality(ViolatedLimits(c))
              /\ \A i \in 1..Len(c.wrote.runEvents) :
                     /\ c.wrote.runEvents[i].EventType = <<"policy_cap_violation_dry_run">>
                     /\ c.wrote.runEvents[i].Level = <<"warn">>
                     /\ c.wrote.runEvents[i].RunID = TrimSpace(c.req.RunID)
                     /\ jsonUnmarshal(c.wrote.runEvents[i].DataJSON).cap_id =
                            SelectedFor(c).cap.ID]_vars

\* An attempt under a dry-run cap has logged two events and has then failed
\* on the store.
C10_Witness ==
    \E c \in Finished :
        /\ c.op = "RecordPromptAttempt"
        /\ WriteFailed(c)
        /\ DryRunSelected(c)
        /\ Len(attempts) = 1
        /\ Len(runEvents) = 2
        /\ \A i \in 1..2 : runEvents[i].EventType = <<"policy_cap_violation_dry_run">>

----------------------------------------------------------------------------
(* The Auth stage on its own: every method, with and without credentials,  *)
(* under every configuration of the legacy token and the key store.        *)

\* The rows of agent_api_keys: a key with every scope, one with
\* telemetry:write only, one whose scope is stored with padding, a revoked
\* key and a key that expires at time 2.
AgentKeyRows ==
    <<AgentKeyRow(<<"key-full">>, <<"a1">>, <<"k1">>, DefaultAgentKeyScopes, TRUE, FALSE, 0),
      AgentKeyRow(<<"key-telemetry">>, <<"a2">>, <<"k2">>, <<ScopeTelemetryWrite>>,
                  TRUE, FALSE, 0),
      AgentKeyRow(<<"key-padded">>, <<"a3">>, <<"k3">>, <<<<" ", "policy:write", " ">>>>,
                  TRUE, FALSE, 0),
      AgentKeyRow(<<"key-revoked">>, <<"a4">>, <<"k4">>, DefaultAgentKeyScopes,
                  TRUE, TRUE, 0),
      AgentKeyRow(<<"key-expiring">>, <<"a5">>, <<"k5">>, DefaultAgentKeyScopes,
                  TRUE, FALSE, 2)>>

PostgresKeyAuth == [isNil |-> FALSE, up |-> TRUE, rows |-> AgentKeyRows]

\* AUTH_TOKEN unset, set, and set with a leading blank; the flag; the store.
AuthConfigs ==
    {[token |-> t, allowLegacyToken |-> a, keyAuth |-> k] :
        t \in {<<>>, <<"legacy-secret">>, <<" ", "legacy-secret">>},
        a \in BOOLEAN,
        k \in {NilKeyAuth, PostgresKeyAuth}}

Metadata(token, authorization) == [token |-> token, authorization |-> authorization]

\* No header, a key in x-modeloman-token (plain and padded), a key in a
\* Bearer authorization header, an authorization header without the Bearer
\* prefix, the legacy token, and a text that is nobody's credential.
Credentials ==
    {Metadata(<<>>, <<>>),
     Metadata(<<"key-full">>, <<>>),
     Metadata(<<" ", "key-telemetry", " ">>, <<>>),
     Metadata(<<>>, <<"Bearer", " ", "key-full">>),
     Metadata(<<>>, <<"key-full">>),
     Metadata(<<"key-padded">>, <<>>),
     Metadata(<<"key-revoked">>, <<>>),
     Metadata(<<"key-expiring">>, <<>>),
     Metadata(<<"legacy-secret">>, <<>>),
     Metadata(<<"wrong">>, <<>>)}

\* The three public methods, and private and write methods of each of the
\* four scopes.
AuthMethods ==
    PublicReadMethods
    \cup {"ExportState", "ListTasks"}
    \cup {"CreateTask", "StartRun", "RecordRunEvent", "SetPolicy"}

\* One request through the Auth stage; the next stage is reached when the
\* answer says so.
Authenticate(method, md) ==
    /\ \E a \in {AuthUnaryInterceptor(auth, method, md, nowSeconds)} :
          edge' = [stage |-> "auth", method |-> method, md |-> md, peer |-> <<>>,
                   code |-> a.code, principal |-> a.principal,
                   hasPrincipal |-> a.hasPrincipal, identifier |-> <<>>, call |-> 0,
                   next |-> a.next, at |-> nowSeconds, up |-> auth.keyAuth.up]
    /\ UNCHANGED <<idemVars, hubVars, nextId, now, auth, limiter, passed, pgIdempotency>>

\* The database behind the key authenticator goes away and comes back.
KeyStoreOutage ==
    /\ ~auth.keyAuth.isNil
    /\ auth' = [auth EXCEPT !.keyAuth.up = ~@]
    /\ UNCHANGED <<idemVars, hubVars, nextId, now, limiter, passed, edge, pgIdempotency>>

\* Keys expire as time passes.
AuthTick ==
    /\ nowSeconds < MaxTime
    /\ now' = now + MsPerSecond
    /\ UNCHANGED <<idemVars, hubVars, nextId, edgeVars>>

InitAuth ==
    /\ InitStore(DataFiles)
    /\ auth \in AuthConfigs
    /\ limiter = DefaultLimiter
    /\ passed = [i \in {} |-> <<>>]
    /\ edge = NoEdge
    /\ pgIdempotency = [k \in {} |-> EmptyIdempotencyRecord]

NextAuth ==
    \/ \E method \in AuthMethods, md \in Credentials : Authenticate(method, md)
    \/ KeyStoreOutage
    \/ AuthTick

SpecAuth == InitAuth /\ [][NextAuth]_vars

----------------------------------------------------------------------------
(* Properties of the Auth stage.  They are stated on the last request the  *)
(* stage has answered: edge holds the request, the answer, the time and    *)
(* the availability of the key store when it was answered.                 *)

AuthAnswered == edge.stage = "auth"

\* The credential a request carries: the trimmed x-modeloman-token header,
\* else the trimmed remainder of a Bearer authorization header.
Credential == extractToken(edge.md)

\* The rows of the key table that accept the credential at the time of the
\* request: same digest, active, not revoked, not expired.
AcceptingRows ==
    IF auth.keyAuth.isNil THEN {}
    ELSE {i \in 1..Len(auth.keyAuth.rows) :
            LET r == auth.keyAuth.rows[i]
            IN  /\ r.key_hash = sha256(Credential) /\ r.is_active /\ ~r.revoked
                /\ (r.expires_at = 0 \/ r.expires_at > edge.at)}

AcceptedKey == Credential # <<>> /\ AcceptingRows # {}

LegacyEnabled == auth.token # <<>> /\ auth.allowLegacyToken

MatchesLegacy == LegacyEnabled /\ Credential = auth.token

\* The key lookup of the request returned an error.
LookupFailed == Credential # <<>> /\ ~auth.keyAuth.isNil /\ ~edge.up

\* The scopes of the principal the credential stands for, without the
\* padding a stored scope may carry.
GrantedScopes ==
    IF AcceptedKey
    THEN LET scopes == auth.keyAuth.rows[CHOOSE i \in AcceptingRows : TRUE].scopes
         IN  {TrimSpace(scopes[i]) : i \in 1..Len(scopes)}
    ELSE {DefaultAgentKeyScopes[i] : i \in 1..Len(DefaultAgentKeyScopes)}

\* C11: a request to a private_read or write method with no credential, or
\* (the key lookup having answered) with a credential that is neither an
\* accepted API key nor the enabled legacy token, is answered Unauthenticated
\* and the next stage is not called; a request to a public_read method
\* reaches the next stage whatever it carries.
C11_PrivateNeedsCredential ==
    AuthAnswered =>
        /\ (/\ edge.method \in PrivateReadMethods \cup WriteMethods
            /\ \/ Credential = <<>>
               \/ ~LookupFailed /\ ~AcceptedKey /\ ~MatchesLegacy)
           => edge.code = GrpcUnauthenticated /\ ~edge.next
        /\ edge.method \in PublicReadMethods => edge.next /\ edge.code = GrpcOK

\* A private read without any header was refused although a legacy token
\* is configured and enabled and the key store is there.
C11_Witness ==
    /\ AuthAnswered /\ edge.method = "ExportState"
    /\ edge.md = Metadata(<<>>, <<>>)
    /\ LegacyEnabled /\ ~auth.keyAuth.isNil
    /\ edge.code = GrpcUnauthenticated /\ ~edge.next

\* C12: an authenticated principal without the required scope of the method
\* is answered PermissionDenied and the next stage is not called; with the
\* scope, the request reaches the next stage with the principal attached.
C12_ScopeGatesMethod ==
    (/\ AuthAnswered /\ edge.method \in PrivateReadMethods \cup WriteMethods
     /\ ~LookupFailed /\ (AcceptedKey \/ MatchesLegacy))
    => IF MethodScopes[edge.method] \in GrantedScopes
       THEN edge.next /\ edge.code = GrpcOK /\ edge.hasPrincipal
       ELSE edge.code = GrpcPermissionDenied /\ ~edge.next

\* The key that holds telemetry:write only has been denied SetPolicy.
C12_Witness ==
    /\ AuthAnswered /\ edge.method = "SetPolicy"
    /\ Credential = <<"key-telemetry">> /\ AcceptedKey
    /\ GrantedScopes = {ScopeTelemetryWrite}
    /\ edge.code = GrpcPermissionDenied /\ ~edge.next

\* C13: a credential that is not an accepted API key (the lookup having
\* answered) authenticates if and only if a non-empty legacy token is
\* configured, the flag is true and the credential equals the token; the
\* principal is then legacy_shared_token with the default scopes; with the
\* flag false the answer is Unauthenticated.
C13_LegacyFallback ==
    (/\ AuthAnswered /\ edge.method \in PrivateReadMethods \cup WriteMethods
     /\ Credential # <<>> /\ ~AcceptedKey /\ ~LookupFailed)
    => /\ edge.next <=> (auth.token # <<>> /\ auth.allowLegacyToken
                         /\ Credential = auth.token)
       /\ edge.next => /\ edge.hasPrincipal
                       /\ edge.principal.KeyID = <<"legacy_shared_token">>
                       /\ edge.principal.Scopes = DefaultAgentKeyScopes
       /\ ~auth.allowLegacyToken => edge.code = GrpcUnauthenticated

\* The key lookup found nothing and the legacy token let the request in.
C13_Witness ==
    /\ AuthAnswered /\ edge.method = "SetPolicy"
    /\ ~auth.keyAuth.isNil /\ edge.up /\ ~AcceptedKey
    /\ Credential = <<"legacy-secret">> /\ MatchesLegacy
    /\ edge.next /\ edge.principal.KeyID = <<"legacy_shared_token">>

\* C14: when the key lookup returns an error, the answer is Internal and
\* the next stage is not called, also when the credential is the enabled
\* legacy token.
C14_LookupErrorIsInternal ==
    (/\ AuthAnswered /\ edge.method \in PrivateReadMethods \cup WriteMethods
     /\ LookupFailed)
    => edge.code = GrpcInternal /\ ~edge.next

\* The key store was down and the enabled legacy token was presented.
C14_Witness ==
    /\ AuthAnswered /\ edge.method = "RecordRunEvent"
    /\ LookupFailed /\ MatchesLegacy
    /\ edge.code = GrpcInternal /\ ~edge.next

----------------------------------------------------------------------------
(* The RateLimit stage on its own: requests of a key and of a remote host  *)
(* against limiters of small rates and bursts, as the seconds pass.  Each  *)
(* caller reads the clock before it takes the mutex, and the callers take  *)
(* the mutex in any order.                                                 *)

\* The seconds the rate limiter is watched for.
MaxClock == 3

\* One token per second; bursts of 2 or 3 tokens for keys, and of half a
\* token or 1 token for hosts; a bucket TTL of one second, or none given
\* (ten minutes).
LimiterConfigs ==
    {[AuthenticatedPerSecond |-> OneToken, AuthenticatedBurst |-> ab,
      UnauthenticatedPerSecond |-> OneToken, UnauthenticatedBurst |-> ub,
      BucketTTL |-> ttl] :
        ab \in {2 * OneToken, 3 * OneToken}, ub \in {1, OneToken}, ttl \in {0, 1}}

Context(principal, hasPrincipal, peer) ==
    [principal |-> principal, hasPrincipal |-> hasPrincipal, peer |-> peer]

\* A request of the key k1, a request without principal from 10.0.0.1, and
\* a request whose principal has a blank key id, from the same host with an
\* address that has no port.
Contexts ==
    {Context([AgentID |-> <<"a1">>, KeyID |-> <<"k1">>, Scopes |-> DefaultAgentKeyScopes],
             TRUE, <<<<"10.0.0.9", ":", "4000">>>>),
     Context(NoPrincipal, FALSE, <<<<"10.0.0.1", ":", "5000">>>>),
     Context([AgentID |-> <<"a2">>, KeyID |-> <<" ">>, Scopes |-> DefaultAgentKeyScopes],
             TRUE, <<<<" ", "10.0.0.1">>>>)}

\* The requests of an identifier that were let through, in the order in
\* which Allow answered them: the time the call read, and the time at which
\* it was answered.
PassedAt(identifier) ==
    IF identifier \in DOMAIN passed THEN passed[identifier] ELSE <<>>

Record(identifier, t) ==
    [i \in DOMAIN passed \cup {identifier} |->
        IF i = identifier THEN Append(PassedAt(identifier), [read |-> t, answered |-> nowSeconds])
        ELSE passed[i]]

\* The request of the other callers: without principal, from 10.0.0.1.
BesideContext == Context(NoPrincipal, FALSE, <<<<"10.0.0.1", ":", "5000">>>>)

\* Allow, lines 701-713: the identifier, the rate and time.Now(), read
\* before the mutex is taken.
AllowReadsClock(p, ctx) ==
    /\ procs[p].pc \in {"idle", "done"}
    /\ procs' = [procs EXCEPT ![p] =
                    [NewProc("Allow", ctx) EXCEPT !.pc = "lock", !.loc = [now |-> nowSeconds]]]
    /\ UNCHANGED <<idemVars, nextId, now, policy, policyCaps, runs, attempts, runEvents,
                   last, edgeVars>>

\* Allow, lines 714-739: the section under the mutex, with the time read
\* before, and the answer of the RateLimit stage.
AllowLocked(p) ==
    /\ procs[p].pc = "lock"
    /\ \E ctx \in {procs[p].req} : \E t \in {procs[p].loc.now} :
          \E r \in {RateLimitUnaryInterceptor(limiter, ctx, t)} :
              /\ limiter' = r.limiter
              /\ passed' = IF r.next THEN Record(r.identifier, t) ELSE passed
              /\ edge' = [stage |-> "ratelimit", method |-> "", md |-> Metadata(<<>>, <<>>),
                          peer |-> ctx.peer, code |-> r.code, principal |-> ctx.principal,
                          hasPrincipal |-> ctx.hasPrincipal, identifier |-> r.identifier,
                          call |-> 0, next |-> r.next, at |-> t, up |-> TRUE]
              /\ procs' = [procs EXCEPT ![p] = IdleProc]
    /\ UNCHANGED <<idemVars, nextId, now, policy, policyCaps, runs, attempts, runEvents,
                   last, auth, pgIdempotency>>

\* A second passes.
Advance ==
    /\ nowSeconds < MaxClock
    /\ now' = now + MsPerSecond
    /\ UNCHANGED <<idemVars, hubVars, nextId, edgeVars>>

InitLimiter ==
    /\ InitStore(DataFiles)
    /\ auth = NoAuth
    /\ limiter \in {NewTokenBucketRateLimiter(config) : config \in LimiterConfigs}
    /\ passed = [i \in {} |-> <<>>]
    /\ edge = NoEdge
    /\ pgIdempotency = [k \in {} |-> EmptyIdempotencyRecord]

NextLimiter ==
    \/ \E ctx \in Contexts : AllowReadsClock(Caller, ctx)
    \/ \E p \in ProcIds \ {Caller} : AllowReadsClock(p, BesideContext)
    \/ \E p \in ProcIds : AllowLocked(p)
    \/ Advance

SpecLimiter == InitLimiter /\ [][NextLimiter]_vars

----------------------------------------------------------------------------
(* Properties of the rate limiter *)

RateOf(identifier) ==
    IF identifier[1] = "key:" THEN limiter.config.AuthenticatedPerSecond
    ELSE limiter.config.UnauthenticatedPerSecond

BurstOf(identifier) ==
    IF identifier[1] = "key:" THEN limiter.config.AuthenticatedBurst
    ELSE limiter.config.UnauthenticatedBurst

\* The requests let through at the given times number, in every window,
\* at most burst + floor(rate * T), T being the length of the window in
\* seconds.
WindowBound(identifier, times) ==
    \A i \in 1..Len(times), j \in 1..Len(times) :
        times[i] <= times[j]
        => Cardinality({k \in 1..Len(times) : times[i] <= times[k] /\ times[k] <= times[j]})
                   * OneToken
               <= BurstOf(identifier)
                  + ((RateOf(identifier) * (times[j] - times[i])) \div OneToken) * OneToken

\* C16: in every window of time, the requests of one identifier that were
\* let through number at most burst + floor(rate * T), T being the length of
\* the window in seconds, whatever the rate, the burst and the bucket TTL.
\* The time of a request is the time its call read or the time at which it
\* was answered: the bound is to hold for one of the two.
C16_WindowBound ==
    \A identifier \in DOMAIN passed :
        \/ WindowBound(identifier, [k \in 1..Len(passed[identifier]) |->
                                       passed[identifier][k].read])
        \/ WindowBound(identifier, [k \in 1..Len(passed[identifier]) |->
                                       passed[identifier][k].answered])

\* The identifier a request is to be counted under.
ExpectedIdentifier(e) ==
    IF e.hasPrincipal /\ TrimSpace(e.principal.KeyID) # <<>>
    THEN <<"key:">> \o e.principal.KeyID
    ELSE <<"ip:">> \o remoteIP(e.peer)

\* The tokens the bucket of an identifier holds for a call that read the
\* time t: a full burst when there is no bucket or the bucket has outlived
\* its TTL, and otherwise its tokens with the refill of the seconds since
\* its last refill, none when t is not after it.
Available(identifier, t) ==
    IF identifier \notin DOMAIN limiter.buckets THEN BurstOf(identifier)
    ELSE LET b == limiter.buckets[identifier]
             due == IF t > b.lastRefill THEN RateOf(identifier) * (t - b.lastRefill) ELSE 0
         IN  IF t - b.lastSeen > limiter.config.BucketTTL THEN BurstOf(identifier)
             ELSE IF b.tokens + due < BurstOf(identifier) THEN b.tokens + due
             ELSE BurstOf(identifier)

RateLimited == edge'.stage = "ratelimit" /\ <<edge, limiter>>' # <<edge, limiter>>

\* C17: a request with a principal is counted under key:<key_id> with the
\* authenticated rate and burst, every other request under ip:<host> with the
\* unauthenticated ones; it is answered ResourceExhausted exactly when its own
\* bucket holds less than one token, one token is taken otherwise, and the
\* buckets of the other identifiers are left as they are.
C17_OwnBucketDecides ==
    [][RateLimited =>
        LET id == ExpectedIdentifier(edge')
            held == Available(id, edge'.at)
        IN  /\ edge'.identifier = id
            /\ (edge'.code = GrpcResourceExhausted /\ ~edge'.next) <=> held < OneToken
            /\ (edge'.code = GrpcOK /\ edge'.next) <=> held >= OneToken
            /\ edge'.next => limiter'.buckets[id].tokens = held - OneToken
            /\ \A other \in DOMAIN limiter'.buckets \ {id} :
                  /\ other \in DOMAIN limiter.buckets
                  /\ limiter'.buckets[other] = limiter.buckets[other]]_vars

----------------------------------------------------------------------------
(* The chain of main.go: Recovery, Auth, RateLimit, Logging, ErrorMapping, *)
(* Idempotency, handler.  Recovery and Logging pass requests and answers   *)
(* through; ErrorMapping turns the application error of the inner stages   *)
(* into a status on the way out.                                           *)

\* Variant: the rate limiter stands before the Auth stage.
ChainOrder_LimitFirst == <<"ratelimit", "auth", "idempotency">>

\* The stages that answer requests themselves, outermost first.
ChainOrder == <<"auth", "ratelimit", "idempotency">>

\* The stage a stage hands the request to: handler(ctx, req).
Following(stage) ==
    ChainOrder[1 + CHOOSE k \in 1..Len(ChainOrder) : ChainOrder[k] = stage]

\* Variant: the stage that refuses a request still calls the next one.
StageAnswer_RejectOnReturn(call, stage, next, code) ==
    [call EXCEPT !.pc = Following(stage), !.code = IF next THEN @ ELSE code]

\* A stage either calls the following one or returns its status, and the
\* stages outside it return what it returned.
StageAnswer(call, stage, next, code) ==
    IF next THEN [call EXCEPT !.pc = Following(stage)]
    ELSE [call EXCEPT !.pc = "done", !.code = code]

\* A request enters the chain with its metadata and its peer; no principal
\* is attached to it and no stage has read the clock for it (at = 0).
Enter(c, req, md, peer) ==
    /\ calls[c].pc = "new"
    /\ \A d \in CallIds : d < c => calls[d].pc # "new"
    /\ calls' = [calls EXCEPT ![c] =
                    [@ EXCEPT !.req = req, !.pc = ChainOrder[1],
                              !.ctx = [md |-> md, peer |-> peer, principal |-> NoPrincipal,
                                       hasPrincipal |-> FALSE, at |-> 0]]]
    /\ UNCHANGED <<idempotency, tasks, nextId, now, hubVars, edgeVars>>

\* The Auth stage: the key lookup, and the principal attached to the
\* context of the stages inside.
AuthStage(c) ==
    /\ calls[c].pc = "auth"
    /\ \E a \in {AuthUnaryInterceptor(auth, calls[c].req.method, calls[c].ctx.md, nowSeconds)} :
          /\ calls' = [calls EXCEPT ![c] =
                          StageAnswer([@ EXCEPT !.ctx.principal = a.principal,
                                                !.ctx.hasPrincipal = a.hasPrincipal],
                                      "auth", a.next, a.code)]
          /\ edge' = [NoEdge EXCEPT !.stage = "auth", !.code = a.code, !.call = c,
                                     !.next = a.next, !.method = calls[c].req.method,
                                     !.md = calls[c].ctx.md]
    /\ UNCHANGED <<idempotency, tasks, nextId, now, hubVars, auth, limiter, passed,
                   pgIdempotency>>

\* The RateLimit stage, Allow lines 701-713: time.Now() before the mutex.
RateLimitReadsClock(c) ==
    /\ calls[c].pc = "ratelimit"
    /\ calls' = [calls EXCEPT ![c] = [@ EXCEPT !.pc = "allow", !.ctx.at = nowSeconds]]
    /\ UNCHANGED <<idempotency, tasks, nextId, now, hubVars, edgeVars>>

\* The RateLimit stage, Allow lines 714-739 and the answer of the stage.
RateLimitLocked(c) ==
    /\ calls[c].pc = "allow"
    /\ \E r \in {RateLimitUnaryInterceptor(limiter, calls[c].ctx, calls[c].ctx.at)} :
          /\ limiter' = r.limiter
          /\ passed' = IF r.next THEN Record(r.identifier, calls[c].ctx.at) ELSE passed
          /\ calls' = [calls EXCEPT ![c] = StageAnswer(@, "ratelimit", r.next, r.code)]
          /\ edge' = [NoEdge EXCEPT !.stage = "ratelimit", !.code = r.code, !.call = c,
                                     !.next = r.next, !.method = calls[c].req.method,
                                     !.md = calls[c].ctx.md]
    /\ UNCHANGED <<idempotency, tasks, nextId, now, hubVars, auth, pgIdempotency>>

\* The Idempotency stage up to its call of the handler.
Reserve(c) ==
    /\ calls[c].pc = "idempotency"
    /\ IdempotencyUnaryInterceptor(c, calls[c].req)
    /\ UNCHANGED edgeVars

\* The steps of the requests that are in the chain.
Stages ==
    \/ \E c \in CallIds : AuthStage(c)
    \/ \E c \in CallIds : RateLimitReadsClock(c)
    \/ \E c \in CallIds : RateLimitLocked(c)
    \/ \E c \in CallIds : Reserve(c)

\* CreateTask "a" with the key k1, sent with the key that has every scope,
\* with the key that lacks tasks:write and with a text that is no
\* credential.
ChainRequests ==
    {[payload |-> IdemRequest("CreateTask", <<"a">>, <<>>, <<"k1">>, <<>>),
      md |-> Metadata(<<"key-full">>, <<>>)],
     [payload |-> IdemRequest("CreateTask", <<"a">>, <<>>, <<"k1">>, <<>>),
      md |-> Metadata(<<"key-telemetry">>, <<>>)],
     [payload |-> IdemRequest("CreateTask", <<"a">>, <<>>, <<"k1">>, <<>>),
      md |-> Metadata(<<"wrong">>, <<>>)]}

ChainPeer == <<<<"10.0.0.1", ":", "5000">>>>

\* One token per second and a burst of one for every identifier.
ChainLimiter ==
    NewTokenBucketRateLimiter(
        [AuthenticatedPerSecond |-> OneToken, AuthenticatedBurst |-> OneToken,
         UnauthenticatedPerSecond |-> OneToken, UnauthenticatedBurst |-> OneToken,
         BucketTTL |-> 0])

InitChain ==
    /\ InitStore(DataFiles)
    /\ auth = [token |-> <<>>, allowLegacyToken |-> FALSE, keyAuth |-> PostgresKeyAuth]
    /\ limiter = ChainLimiter
    /\ passed = [i \in {} |-> <<>>]
    /\ edge = NoEdge
    /\ pgIdempotency = [k \in {} |-> EmptyIdempotencyRecord]

NextChain ==
    \/ \E c \in CallIds, r \in ChainRequests : Enter(c, r.payload, r.md, ChainPeer)
    \/ Stages
    \/ \E c \in CallIds : Handle(c)
    \/ \E c \in CallIds : Finish(c)
    \/ KeyStoreOutage
    \/ AuthTick

SpecChain == InitChain /\ [][NextChain]_vars

\* The step is the answer of Auth or of RateLimit to the request, and the
\* answer is a refusal.
RefusedOutside(c) ==
    /\ calls[c].pc \in {"auth", "allow"} /\ calls'[c] # calls[c]
    /\ edge'.call = c
    /\ edge'.code \in {GrpcUnauthenticated, GrpcPermissionDenied, GrpcInternal,
                       GrpcResourceExhausted}

\* Every other call with the method and key of the request is still in
\* the outer stages or was refused by one of them.
OnlyRefusedBefore(c) ==
    \A d \in CallIds \ {c} :
        (calls[d].pc # "new" /\ SameKeyOnly(calls[d].req, calls[c].req))
        => \/ calls[d].pc \in {"auth", "ratelimit", "allow"}
           \/ calls[d].code \in {GrpcUnauthenticated, GrpcPermissionDenied, GrpcInternal,
                                 GrpcResourceExhausted}

\* C15: a request refused by Auth (Unauthenticated, PermissionDenied,
\* Internal) or by RateLimit (ResourceExhausted) leaves the idempotency
\* records and the tasks as they are and does not reach the handler; and a
\* request that passes both stages, with a key that only refused requests
\* have carried before, reserves the key and goes on to the handler.
C15_RejectionsKeepKeys ==
    [][\A c \in CallIds :
          /\ RefusedOutside(c)
             => /\ idempotency' = idempotency /\ tasks' = tasks
                /\ calls'[c].pc = "done" /\ ~calls'[c].reserved /\ ~calls'[c].ranHandler
                /\ calls'[c].code = edge'.code
          /\ (/\ calls[c].pc = "idempotency" /\ calls'[c] # calls[c]
              /\ Keyed(calls[c].req) /\ OnlyRefusedBefore(c))
             => calls'[c].pc = "handler" /\ calls'[c].reserved]_vars

\* A keyed CreateTask was refused by the rate limiter and another by Auth;
\* a later request with the same key and payload created the task, and its
\* response is the completed record of the key.
C15_Witness ==
    \E c \in CallIds, d \in CallIds :
        /\ c < d
        /\ Done(c) /\ calls[c].code \in {GrpcResourceExhausted, GrpcPermissionDenied}
        /\ SameKeyed(calls[c].req, calls[d].req)
        /\ ReturnedOK(d) /\ calls[d].handlerOK /\ calls[d].reserved
        /\ HasRecord(calls[d].req) /\ RecordOf(calls[d].req).Completed
        /\ Len(tasks) = 1

----------------------------------------------------------------------------
(* Reservations in progress and released (specification Spec) *)

\* The invocation holds the reservation of its key: it created the record
\* and has not yet completed or released it.
Holding(c) == calls[c].reserved /\ calls[c].pc \in {"handler", "handled"}

\* C18: while an invocation holds the uncompleted reservation of (M, k),
\* every invocation with the same (M, k) and request hash that arrives
\* returns FailedPrecondition and its handler is not invoked; at any time at
\* most one invocation per (M, k) holds a reservation, that is, has its
\* handler in flight.
C18_InProgressIsRefused ==
    [][/\ \A c \in CallIds, d \in CallIds :
             (Arrives(c) /\ Holding(d) /\ SameKeyed(calls[d].req, calls'[c].req))
             => /\ calls'[c].pc = "done"
                /\ calls'[c].code = CodeFailedPrecondition
                /\ ~calls'[c].ranHandler /\ ~calls'[c].reserved
                /\ idempotency' = idempotency /\ tasks' = tasks
       /\ \A c \in CallIds, d \in CallIds :
             (Holding(c)' /\ Holding(d)' /\ SameKeyOnly(calls'[c].req, calls'[d].req))
             => c = d]_vars

\* An invocation was turned away while the holder of the reservation is
\* still between its handler and the completion.
C18_Witness ==
    \E c \in CallIds, d \in CallIds :
        /\ Holding(c) /\ calls[c].pc = "handled" /\ calls[c].handlerOK
        /\ Done(d) /\ calls[d].code = CodeFailedPrecondition /\ ~calls[d].ranHandler
        /\ SameKeyed(calls[c].req, calls[d].req)
        /\ HasRecord(calls[c].req) /\ ~RecordOf(calls[c].req).Completed

\* The step in which the invocation c returns from the interceptor after
\* its handler.
Returns(c) == calls[c].pc = "handled" /\ calls'[c].pc = "done"

\* C19: when the handler of the invocation that reserved (M, k) returns an
\* error, the record is removed and the error is returned; an invocation with
\* the same (M, k, payload) that arrives while there is no record runs the
\* handler again; and when a handler succeeds, its response is stored in the
\* completed record and returned.
C19_ErrorReleasesKey ==
    [][\A c \in CallIds :
          /\ (Returns(c) /\ calls[c].reserved /\ calls[c].code # OK)
             => /\ ~HasRecord(calls[c].req)'
                /\ calls'[c].code = calls[c].code
          /\ (/\ Arrives(c) /\ Keyed(calls'[c].req) /\ ~HasRecord(calls'[c].req)
              /\ \E d \in CallIds : /\ Done(d) /\ calls[d].reserved /\ calls[d].code # OK
                                    /\ SameKeyed(calls[d].req, calls'[c].req))
             => calls'[c].pc = "handler" /\ calls'[c].reserved
          /\ (Returns(c) /\ calls[c].reserved /\ calls[c].code = OK)
             => /\ HasRecord(calls[c].req)' /\ RecordOf(calls[c].req)'.Completed
                /\ decodeIdempotentResponse(RecordOf(calls[c].req)'.ResponseJSON).response
                   = calls'[c].response
                /\ calls'[c].code = OK]_vars

\* DeleteTask with the key k1 failed with NotFound and released the key;
\* after the task was created, the same request ran the handler again and
\* its answer is the completed record.
C19_Witness ==
    \E c \in CallIds, d \in CallIds :
        /\ d < c /\ SameKeyed(calls[c].req, calls[d].req)
        /\ Done(d) /\ calls[d].reserved /\ calls[d].ranHandler
        /\ calls[d].code = CodeNotFound
        /\ ReturnedOK(c) /\ calls[c].handlerOK /\ calls[c].reserved
        /\ HasRecord(calls[c].req) /\ RecordOf(calls[c].req).Completed

----------------------------------------------------------------------------
(* The two idempotency stores side by side: every operation is applied to  *)
(* the FileStore map and to the PostgresStore table with the same          *)
(* arguments.                                                              *)

StoreMethods == {"CreateTask", "DeleteTask"}

\* The key k1, plain and padded.
StoreKeys == {<<"k1">>, <<" ", "k1", " ">>}

StoreHashes == {sha256(jsonMarshal([id |-> <<"a">>])), sha256(jsonMarshal([id |-> <<"b">>]))}

StoreResponses == {jsonMarshal([ok |-> TRUE]), jsonMarshal([id |-> <<"a">>])}

StoreReserve(method, key, hash) ==
    /\ idempotency' = ReserveIdempotencyKey(idempotency, method, key, hash).store
    /\ pgIdempotency' = PgReserveIdempotencyKey(pgIdempotency, method, key, hash).store
    /\ UNCHANGED <<tasks, calls, nextId, now, hubVars, auth, limiter, passed, edge>>

\* Complete: the mutex section of FileStore, and the UPDATE of
\* PostgresStore.  When the UPDATE affected no row the call goes on to its
\* SELECT, and last keeps the call until then.
StoreComplete(method, key, responseJSON) ==
    /\ ~(last.op = "CompleteIdempotencyKey" /\ last.code = "")
    /\ idempotency' = CompleteIdempotencyKey(idempotency, method, key, responseJSON).store
    /\ \E upd \in {PgCompleteUpdate(pgIdempotency, method, key, responseJSON)} :
          /\ pgIdempotency' = upd.store
          /\ last' = [op |-> "CompleteIdempotencyKey",
                      code |-> IF upd.err = OK /\ upd.affected = 0 THEN "" ELSE upd.err,
                      msg |-> <<>>, method |-> method, key |-> key]
    /\ UNCHANGED <<tasks, calls, nextId, now, policy, policyCaps, runs, attempts,
                   runEvents, procs, auth, limiter, passed, edge>>

\* The SELECT of PostgresStore.Complete after an UPDATE that affected no
\* row; statements of other calls may have run since the UPDATE.
StoreCompleteSelect ==
    /\ last.op = "CompleteIdempotencyKey" /\ last.code = ""
    /\ last' = [last EXCEPT !.code = PgCompleteSelect(pgIdempotency, last.method, last.key)]
    /\ UNCHANGED <<idemVars, nextId, now, policy, policyCaps, runs, attempts, runEvents,
                   procs, edgeVars>>

StoreRelease(method, key) ==
    /\ idempotency' = ReleaseIdempotencyKey(idempotency, method, key)
    /\ pgIdempotency' = PgReleaseIdempotencyKey(pgIdempotency, method, key)
    /\ UNCHANGED <<tasks, calls, nextId, now, hubVars, auth, limiter, passed, edge>>

NextStores ==
    \/ \E method \in StoreMethods, key \in StoreKeys, hash \in StoreHashes :
          StoreReserve(method, key, hash)
    \/ \E method \in StoreMethods, key \in StoreKeys, responseJSON \in StoreResponses :
          StoreComplete(method, key, responseJSON)
    \/ \E method \in StoreMethods, key \in StoreKeys : StoreRelease(method, key)
    \/ StoreCompleteSelect

SpecStores == Init /\ [][NextStores]_vars

\* The completed records of a store are in the store afterwards, unchanged.
CompletedStay(before, after) ==
    \A key \in DOMAIN before :
        before[key].Completed => key \in DOMAIN after /\ after[key] = before[key]

\* C20: in the file store and in the Postgres store, a completed record
\* keeps its response and its completed flag through every later Complete
\* and Release, and a record that disappears was not completed.
C20_CompletedIsFrozen ==
    [][/\ CompletedStay(idempotency, idempotency')
       /\ CompletedStay(pgIdempotency, pgIdempotency')]_vars

----------------------------------------------------------------------------
(* Callers of the idempotency stores running side by side.  Each caller    *)
(* reserves in both stores with the same arguments.  FileStore holds its   *)
(* mutex for the whole of Reserve; PostgresStore sends the INSERT and,     *)
(* when it affected no row, the SELECT as two statements, and statements   *)
(* of other callers may run between them.                                  *)

IdleReserver ==
    [pc |-> "idle", method |-> "", key |-> <<>>, hash |-> <<>>,
     file |-> [record |-> EmptyIdempotencyRecord, created |-> FALSE, err |-> OK],
     pg |-> [record |-> EmptyIdempotencyRecord, created |-> FALSE, err |-> OK]]

\* The mutex section of FileStore.Reserve, and the INSERT of PostgresStore.
\* PostgresStore refuses blank arguments before it sends any statement
\* (lines 943-945), and the call is then over.
ReserveBegin(p, method, key, hash) ==
    /\ procs[p].pc \in {"idle", "done"}
    /\ \E f \in {ReserveIdempotencyKey(idempotency, method, key, hash)},
          ins \in {PgReserveInsert(pgIdempotency, method, key, hash)} :
           /\ idempotency' = f.store
           /\ pgIdempotency' = ins.store
           /\ procs' = [procs EXCEPT ![p] =
                  [pc |-> IF ins.err # OK THEN "done"
                          ELSE IF ins.affected > 0 THEN "holding" ELSE "select",
                   method |-> method, key |-> key, hash |-> hash,
                   file |-> [record |-> f.record, created |-> f.created, err |-> f.err],
                   pg |-> [record |-> EmptyIdempotencyRecord,
                           created |-> ins.affected > 0, err |-> ins.err]]]
    /\ UNCHANGED <<tasks, calls, nextId, now, policy, policyCaps, runs, attempts,
                   runEvents, last, auth, limiter, passed, edge>>

\* The SELECT of PostgresStore.Reserve after an INSERT that met a conflict.
ReserveSelect(p) ==
    /\ procs[p].pc = "select"
    /\ \E sel \in {PgReserveSelect(pgIdempotency, procs[p].method, procs[p].key)} :
           procs' = [procs EXCEPT ![p].pc = "done",
                                  ![p].pg = [record |-> sel.record, created |-> FALSE,
                                             err |-> sel.err]]
    /\ UNCHANGED <<idemVars, nextId, now, policy, policyCaps, runs, attempts,
                   runEvents, last, edgeVars>>

\* The holder's handler succeeded: Complete in both stores.  The UPDATE of
\* PostgresStore finds the holder's row, and no SELECT follows it.
HolderCompletes(p, responseJSON) ==
    /\ procs[p].pc = "holding"
    /\ idempotency' =
          CompleteIdempotencyKey(idempotency, procs[p].method, procs[p].key,
                                 responseJSON).store
    /\ pgIdempotency' =
          PgCompleteIdempotencyKey(pgIdempotency, procs[p].method, procs[p].key,
                                   responseJSON).store
    /\ procs' = [procs EXCEPT ![p].pc = "done"]
    /\ UNCHANGED <<tasks, calls, nextId, now, policy, policyCaps, runs, attempts,
                   runEvents, last, auth, limiter, passed, edge>>

\* The holder's handler failed: Release in both stores.
HolderReleases(p) ==
    /\ procs[p].pc = "holding"
    /\ idempotency' = ReleaseIdempotencyKey(idempotency, procs[p].method, procs[p].key)
    /\ pgIdempotency' =
          PgReleaseIdempotencyKey(pgIdempotency, procs[p].method, procs[p].key)
    /\ procs' = [procs EXCEPT ![p].pc = "done"]
    /\ UNCHANGED <<tasks, calls, nextId, now, policy, policyCaps, runs, attempts,
                   runEvents, last, auth, limiter, passed, edge>>

InitReserve ==
    /\ idempotency = [k \in {} |-> EmptyIdempotencyRecord]
    /\ pgIdempotency = [k \in {} |-> EmptyIdempotencyRecord]
    /\ procs = [p \in ProcIds |-> IdleReserver]
    /\ calls = [c \in CallIds |-> NewCall]
    /\ nextId = [p \in IDPrefixes |-> <<>>]
    /\ now = ClockStart
    /\ \E file \in DataFiles :
          /\ tasks = Load(file).tasks
          /\ policy = Load(file).policy
          /\ policyCaps = Load(file).policyCaps
          /\ runs = Load(file).runs
          /\ attempts = Load(file).attempts
          /\ runEvents = Load(file).runEvents
    /\ last = NoCall
    /\ auth = NoAuth
    /\ limiter = DefaultLimiter
    /\ passed = [i \in {} |-> <<>>]
    /\ edge = NoEdge

NextReserve ==
    \/ \E p \in ProcIds, method \in {"CreateTask"}, key \in StoreKeys,
          hash \in StoreHashes : ReserveBegin(p, method, key, hash)
    \/ \E p \in ProcIds : ReserveSelect(p)
    \/ \E p \in ProcIds, responseJSON \in StoreResponses : HolderCompletes(p, responseJSON)
    \/ \E p \in ProcIds : HolderReleases(p)

SpecReserve == InitReserve /\ [][NextReserve]_vars

\* The answer of a finished Reserve: created, or not created with a record
\* that carries a request hash.
ReserveAnswered(r) ==
    /\ r.err = OK
    /\ ~r.created => r.record.RequestHash # <<>>

\* The callers that hold the reservation of (method, key) in a store.
Holders(method, key, store) ==
    {p \in ProcIds : /\ procs[p].pc = "holding"
                     /\ procs[p].method = method
                     /\ TrimSpace(procs[p].key) = TrimSpace(key)
                     /\ procs[p][store].created}

\* C21: when Reserve calls for the same (method, key) interleave with each
\* other and with the holder's Complete and Release, a live reservation has
\* one holder in each store, and every Reserve that has returned answered
\* created = true or created = false with the existing record, never an error.
C21_ReserveNeverFails ==
    /\ \A p \in ProcIds, store \in {"file", "pg"} :
           Cardinality(Holders(procs[p].method, procs[p].key, store)) <= 1
    /\ \A p \in ProcIds :
           /\ procs[p].pc \in {"holding", "select", "done"} => ReserveAnswered(procs[p].file)
           /\ procs[p].pc \in {"holding", "done"} => ReserveAnswered(procs[p].pg)

----------------------------------------------------------------------------
(* What the inner stages and the handler hand to ErrorUnaryInterceptor,    *)
(* and what leaves the chain.  An outcome is nil, an *AppError (possibly   *)
(* wrapped with %w), another Go error, a gRPC status, or a panic.          *)

NilOutcome == [kind |-> "nil", code |-> "", message |-> <<>>, wrapped |-> FALSE]

AppErrorOutcome(code, message, wrapped) ==
    [kind |-> "app", code |-> code, message |-> message, wrapped |-> wrapped]

PlainErrorOutcome(message) ==
    [kind |-> "error", code |-> "", message |-> message, wrapped |-> FALSE]

StatusOutcome(code, message) ==
    [kind |-> "status", code |-> code, message |-> message, wrapped |-> FALSE]

PanicOutcome(message) ==
    [kind |-> "panic", code |-> "", message |-> message, wrapped |-> FALSE]

\* status.Code(err)
statusCode(err) ==
    IF err.kind = "nil" THEN GrpcOK
    ELSE IF err.kind = "status" THEN err.code
    ELSE "Unknown"

InternalServerError == <<"internal", " ", "server", " ", "error">>

\* mapError on an error value: errors.As finds the *AppError through %w.
mapErrorOf(err) ==
    IF err.kind = "app"
    THEN StatusOutcome(mapError(err.code), err.message)
    ELSE StatusOutcome(GrpcInternal, InternalServerError)

\* ErrorUnaryInterceptor: a panic of the inner stages passes through it.
ErrorUnaryInterceptor(inner) ==
    IF inner.kind \in {"nil", "panic"} THEN inner
    ELSE IF statusCode(inner) # "Unknown" THEN inner
    ELSE mapErrorOf(inner)

\* RecoveryUnaryInterceptor: recover() turns a panic into the status Internal.
RecoveryUnaryInterceptor(inner) ==
    IF inner.kind = "panic"
    THEN StatusOutcome(GrpcInternal, InternalServerError)
    ELSE inner

\* Recovery around ErrorMapping; Auth, RateLimit and Logging between them
\* hand the error of the inner stages on as it is.
LeavesChain(inner) == RecoveryUnaryInterceptor(ErrorUnaryInterceptor(inner))

DomainCodes ==
    {CodeInvalidArgument, CodeNotFound, CodeConflict, CodeUnauthenticated,
     CodeFailedPrecondition, CodeResourceExhausted, CodeInternal}

\* The codes of section 7 of the specification, as gRPC names them.
WireCodes ==
    {GrpcInvalidArgument, GrpcNotFound, GrpcAlreadyExists, GrpcUnauthenticated,
     GrpcPermissionDenied, GrpcFailedPrecondition, GrpcResourceExhausted, GrpcInternal}

\* The codes of an error status in google.golang.org/grpc/codes.
GrpcCodes ==
    WireCodes \cup {"Canceled", "Unknown", "DeadlineExceeded", "Aborted", "OutOfRange",
                    "Unimplemented", "Unavailable", "DataLoss"}

ErrorMessages == {<<>>, <<"run", " ", "not", " ", "found">>, <<"boom">>}

\* The outcomes offered: every application error kind and one of no known
\* kind, bare and wrapped; a Go error; a status of every code; panics;
\* success.
InnerOutcomes ==
    {NilOutcome}
    \cup {AppErrorOutcome(code, message, wrapped) :
             code \in DomainCodes \cup {"teapot", ""}, message \in ErrorMessages,
             wrapped \in BOOLEAN}
    \cup {PlainErrorOutcome(message) : message \in ErrorMessages}
    \cup {StatusOutcome(code, message) :
             code \in GrpcCodes, message \in ErrorMessages}
    \cup {PanicOutcome(message) : message \in ErrorMessages}

\* One request: the inner stages produce an outcome, the chain answers.
Answer(inner) ==
    /\ edge.stage = ""
    /\ edge' = [stage |-> "answered", inner |-> inner, out |-> LeavesChain(inner)]
    /\ UNCHANGED <<idemVars, nextId, now, hubVars, auth, limiter, passed, pgIdempotency>>

\* The next request.
NextRequest ==
    /\ edge.stage = "answered"
    /\ edge' = [stage |-> "", inner |-> edge.inner, out |-> NilOutcome]
    /\ UNCHANGED <<idemVars, nextId, now, hubVars, auth, limiter, passed, pgIdempotency>>

InitErrors ==
    /\ InitStore(DataFiles)
    /\ auth = NoAuth
    /\ limiter = DefaultLimiter
    /\ passed = [i \in {} |-> <<>>]
    /\ edge = [stage |-> "", inner |-> NilOutcome, out |-> NilOutcome]
    /\ pgIdempotency = [k \in {} |-> EmptyIdempotencyRecord]

NextErrors ==
    \/ \E inner \in InnerOutcomes : Answer(inner)
    \/ NextRequest

SpecErrors == InitErrors /\ [][NextErrors]_vars

\* The wire code of each error kind, from the table of the specification.
WireCodeOf(code) ==
    CASE code = CodeInvalidArgument -> GrpcInvalidArgument
      [] code = CodeNotFound -> GrpcNotFound
      [] code = CodeConflict -> GrpcAlreadyExists
      [] code = CodeUnauthenticated -> GrpcUnauthenticated
      [] code = CodeFailedPrecondition -> GrpcFailedPrecondition
      [] code = CodeResourceExhausted -> GrpcResourceExhausted
      [] OTHER -> GrpcInternal

\* C22: whatever the inner stages hand over, what leaves the chain is nil
\* for a success and otherwise a status with one of the eight codes: the
\* code of its kind for an application error, Internal for a panic or an
\* unrecognised error, and the status itself when it was already mapped.
C22_OnlyListedCodesEscape ==
    edge.stage = "answered" =>
        /\ edge.inner.kind = "nil" <=> edge.out.kind = "nil"
        /\ edge.inner.kind # "nil" =>
              /\ edge.out.kind = "status"
              /\ edge.out.code \in WireCodes
        /\ edge.inner.kind = "app" =>
              /\ edge.out.code = WireCodeOf(edge.inner.code)
              /\ edge.out.message = edge.inner.message
        /\ (\/ edge.inner.kind \in {"panic", "error"}
            \/ edge.inner.kind = "status" /\ edge.inner.code = "Unknown") =>
              edge.out = StatusOutcome(GrpcInternal, InternalServerError)
        /\ edge.inner.kind = "status" /\ edge.inner.code # "Unknown" =>
              edge.out = edge.inner

----------------------------------------------------------------------------
(* float64.  A float64 is zero or (-1)^neg * m * 2^e with m a natural      *)
(* number of exactly 53 bits; each operation                               *)
(* computes its result exactly and rounds it once, to the nearest float64  *)
(* and to the even one of two that are equally near.  The values of the    *)
(* model are far from the subnormal numbers and from the infinities.       *)

FloatZero == [neg |-> FALSE, m |-> <<>>, e |-> 0]

\* The float64 nearest to (-1)^neg * m * 2^e, or to a value between that
\* and the next multiple of 2^e when sticky.
RoundToFloat64(neg, m, e, sticky) ==
    LET excess == NatBits(m) - 53
        cut == NatShiftRight(m, excess - 1)
        half == NatDivide(cut.q, 2)
        up == half.r = 1 /\ (cut.sticky \/ sticky \/ half.q[1] % 2 = 1)
        q == IF up THEN NatPlus(half.q, NatOf(1)) ELSE half.q
    IN  IF m = <<>> THEN FloatZero
        ELSE IF excess <= 0
        THEN [neg |-> neg, m |-> NatShiftLeft(m, 0 - excess), e |-> e + excess]
        ELSE IF NatBits(q) > 53
        THEN [neg |-> neg, m |-> NatDivide(q, 2).q, e |-> e + excess + 1]
        ELSE [neg |-> neg, m |-> q, e |-> e + excess]

\* float64(k) for an integer k
Float64(k) == RoundToFloat64(k < 0, NatOf(IF k < 0 THEN 0 - k ELSE k), 0, FALSE)

\* x / float64(d) for an integer 0 < d < 2^15
FloatQuotient(x, d) ==
    LET a == NatDivide(NatShiftLeft(x.m, 64), d)
    IN  RoundToFloat64(x.neg, a.q, x.e - 64, a.r # 0)

\* x * float64(k) for an integer 0 < k < 2^15
FloatProduct(x, k) == RoundToFloat64(x.neg, NatTimes(x.m, k), x.e, FALSE)

\* x - y
FloatDifference(x, y) ==
    LET e == IF x.e < y.e THEN x.e ELSE y.e
        a == NatShiftLeft(x.m, x.e - e)
        b == NatShiftLeft(y.m, y.e - e)
    IN  IF x.neg # y.neg THEN RoundToFloat64(x.neg, NatPlus(a, b), e, FALSE)
        ELSE IF NatCompare(a, b) >= 0 THEN RoundToFloat64(x.neg, NatMinus(a, b), e, FALSE)
        ELSE RoundToFloat64(~x.neg, NatMinus(b, a), e, FALSE)

\* -1, 0 or 1 as x is below, equal to or above y.
FloatCompare(x, y) ==
    LET size == IF x.e # y.e THEN (IF x.e < y.e THEN -1 ELSE 1) ELSE NatCompare(x.m, y.m)
    IN  IF x.m = <<>> /\ y.m = <<>> THEN 0
        ELSE IF x.m = <<>> THEN (IF y.neg THEN 1 ELSE -1)
        ELSE IF y.m = <<>> THEN (IF x.neg THEN -1 ELSE 1)
        ELSE IF x.neg # y.neg THEN (IF x.neg THEN -1 ELSE 1)
        ELSE IF x.neg THEN 0 - size ELSE size

----------------------------------------------------------------------------
(* Leaderboard.  Costs are whole dollars and latencies whole milliseconds, *)
(* so that their sums are exact; the rates, the averages and the score are *)
(* float64 values, each operation rounded as the compiler of the amd64     *)
(* build rounds it, with no fused multiply-add.  Go iterates over the map  *)
(* of groups in an unspecified order, and the comparison handed to         *)
(* slices.SortFunc answers 0 for some pairs of different groups: the       *)
(* result is any arrangement of the groups that the comparison accepts as  *)
(* sorted.                                                                 *)

\* The lowest 64 bits of a natural number.
NatLow64(x) ==
    TrimNat([i \in 1..(IF Len(x) < 5 THEN Len(x) ELSE 5) |->
                IF i = 5 THEN x[i] % 16 ELSE x[i]])

RECURSIVE IntOf(_)
IntOf(x) == IF x = <<>> THEN 0 ELSE x[1] + LimbBase * IntOf(Tail(x))

\* -time.Duration(windowDays) * 24 * time.Hour: a number of nanoseconds in
\* an int64, which keeps the lowest 64 bits of the product.  back is TRUE
\* for a duration below zero; ns is its size.
WindowDuration(windowDays) ==
    LET exact == NatTimes(NatTimes(NatTimes(NatTimes(NatTimes(
                     NatOf(windowDays), 864), 100), 1000), 1000), 1000)
        Signed(low) ==
            IF NatCompare(low, NatShiftLeft(NatOf(1), 63)) <= 0
            THEN [back |-> TRUE, ns |-> low]
            ELSE [back |-> FALSE, ns |-> NatMinus(NatShiftLeft(NatOf(1), 64), low)]
    IN  Once(Signed, NatLow64(exact))

\* A number of nanoseconds in days, seconds and nanoseconds.
SplitNanos(ns) ==
    LET Days(a, b, c, d) ==
            Once(LAMBDA e : [days |-> IntOf(e.q), sec |-> d.r + (100 * e.r),
                             nano |-> a.r + (1000 * b.r) + (1000000 * c.r)],
                 NatDivide(d.q, 864))
        Hundreds(a, b, c) == Once(LAMBDA d : Days(a, b, c, d), NatDivide(c.q, 100))
        Seconds(a, b) == Once(LAMBDA c : Hundreds(a, b, c), NatDivide(b.q, 1000))
        Millis(a) == Once(LAMBDA b : Seconds(a, b), NatDivide(a.q, 1000))
    IN  Once(Millis, NatDivide(ns, 1000))

\* Time.Add
InstantAdd(i, duration) ==
    LET Sum(s) ==
            LET nano == IF duration.back THEN i.nano - s.nano ELSE i.nano + s.nano
                carry == IF nano < 0 THEN -1 ELSE IF nano >= NanosPerSecond THEN 1 ELSE 0
                sec == (IF duration.back THEN i.sec - s.sec ELSE i.sec + s.sec) + carry
                over == IF sec < 0 THEN -1 ELSE IF sec >= SecondsPerDay THEN 1 ELSE 0
            IN  Instant((IF duration.back THEN i.day - s.days ELSE i.day + s.days) + over,
                        sec - (over * SecondsPerDay), nano - (carry * NanosPerSecond))
    IN  Once(Sum, SplitNanos(duration.ns))

\* -1, 0 or 1 as the instant a is before, at or after the instant b.
InstantCompare(a, b) ==
    LET Compared(x, y) ==
            IF x.day # y.day THEN (IF x.day < y.day THEN -1 ELSE 1)
            ELSE IF x.sec # y.sec THEN (IF x.sec < y.sec THEN -1 ELSE 1)
            ELSE IF x.nano # y.nano THEN (IF x.nano < y.nano THEN -1 ELSE 1)
            ELSE 0
    IN  Once(LAMBDA pair : Compared(pair[1], pair[2]), <<a, b>>)

\* A timestamp as a timestamptz value: the instant to the nearest
\* microsecond, and to the even one of two that are equally near.
Timestamptz(text) ==
    LET Rounded(i) ==
            LET micros == i.nano \div 1000
                rest == i.nano % 1000
                up == rest > 500 \/ (rest = 500 /\ micros % 2 = 1)
                nano == (IF up THEN micros + 1 ELSE micros) * 1000
                carry == IF nano >= NanosPerSecond THEN 1 ELSE 0
                over == IF i.sec + carry >= SecondsPerDay THEN 1 ELSE 0
            IN  Instant(i.day + over, (i.sec + carry) - (over * SecondsPerDay),
                        nano - (carry * NanosPerSecond))
    IN  Once(Rounded, ParseRFC3339Nano(text).instant)

\* FileStore.ListPromptAttemptsFiltered for the fields Leaderboard sets:
\* created_at and the bound are compared as strings.
ListPromptAttemptsFiltered(items, filter) ==
    SelectSeq(items, LAMBDA item :
        /\ filter.Workflow = <<>> \/ item.Workflow = filter.Workflow
        /\ filter.Model = <<>> \/ item.Model = filter.Model
        /\ filter.PromptVersion = <<>> \/ item.PromptVersion = filter.PromptVersion
        /\ ~(/\ filter.CreatedAfter # <<>>
             /\ stringsCompare(item.CreatedAt, filter.CreatedAfter) <= 0))

\* ORDER BY created_at DESC, id DESC
PgBefore(a, b) ==
    Once(LAMBDA order : IF order # 0 THEN order > 0 ELSE stringsCompare(a.ID, b.ID) > 0,
         InstantCompare(Timestamptz(a.CreatedAt), Timestamptz(b.CreatedAt)))

\* The rows in that order: the row in the place i has i - 1 rows before it.
PgOrdered(items, rows) ==
    [i \in 1..Cardinality(rows) |->
        items[CHOOSE k \in rows :
                 Cardinality({j \in rows : PgBefore(items[j], items[k])}) = i - 1]]

\* PostgresStore.ListPromptAttemptsFiltered for the fields Leaderboard sets:
\* created_at >= the bound, as instants, and the newest row first.
PgListPromptAttemptsFiltered(items, filter) ==
    Once(LAMBDA rows : PgOrdered(items, rows),
        {k \in 1..Len(items) :
            /\ TrimSpace(filter.Workflow) = <<>> \/ items[k].Workflow = filter.Workflow
            /\ TrimSpace(filter.Model) = <<>> \/ items[k].Model = filter.Model
            /\ TrimSpace(filter.PromptVersion) = <<>>
               \/ items[k].PromptVersion = filter.PromptVersion
            /\ TrimSpace(filter.CreatedAfter) = <<>>
               \/ InstantCompare(Timestamptz(items[k].CreatedAt),
                                 Timestamptz(filter.CreatedAfter)) >= 0})

\* The stores a HubService can be built on.
StoreKinds == {"file", "postgres"}

\* strings.Join([]string{workflow, promptVersion, model}, "|")
GroupKey(item) == item.Workflow \o <<"|">> \o item.PromptVersion \o <<"|">> \o item.Model

RECURSIVE SumField(_, _, _)
SumField(items, field, i) ==
    IF i > Len(items) THEN 0 ELSE items[i][field] + SumField(items, field, i + 1)

\* The entry of one group: the aggregate of its attempts and the quotients.
LeaderboardEntryOf(items, key) ==
    LET group == SelectSeq(items, LAMBDA item : GroupKey(item) = key)
        n == Len(group)
        successes == Len(SelectSeq(group, LAMBDA item : item.Outcome = <<"success">>))
        totalCost == SumField(group, "CostUSD", 1)
        totalLatency == SumField(group, "LatencyMS", 1)
        successRate == FloatQuotient(Float64(successes), n)
        avgCost == FloatQuotient(Float64(totalCost), n)
        avgLatency == FloatQuotient(Float64(totalLatency), n)
    IN  [Workflow |-> group[1].Workflow,
         PromptVersion |-> group[1].PromptVersion,
         Model |-> group[1].Model,
         Attempts |-> n,
         SuccessAttempts |-> successes,
         FailedAttempts |-> n - successes,
         SuccessRate |-> successRate,
         AverageCostUSD |-> avgCost,
         AverageLatencyMS |-> avgLatency,
         Score |-> FloatDifference(
                       FloatDifference(FloatProduct(successRate, 100),
                                       FloatProduct(avgCost, 100)),
                       FloatQuotient(avgLatency, 1000))]

\* Variant: ties on the score are broken by the lower success rate.
LeaderboardCompare_LowRateFirst(a, b) ==
    IF FloatCompare(a.Score, b.Score) = 0
    THEN IF FloatCompare(a.SuccessRate, b.SuccessRate) = 0
         THEN stringsCompare(a.PromptVersion, b.PromptVersion)
         ELSE IF FloatCompare(a.SuccessRate, b.SuccessRate) < 0 THEN -1 ELSE 1
    ELSE IF FloatCompare(a.Score, b.Score) > 0 THEN -1 ELSE 1

\* The comparison function handed to slices.SortFunc.
LeaderboardCompare(a, b) ==
    IF FloatCompare(a.Score, b.Score) = 0
    THEN IF FloatCompare(a.SuccessRate, b.SuccessRate) = 0
         THEN stringsCompare(a.PromptVersion, b.PromptVersion)
         ELSE IF FloatCompare(a.SuccessRate, b.SuccessRate) > 0 THEN -1 ELSE 1
    ELSE IF FloatCompare(a.Score, b.Score) > 0 THEN -1 ELSE 1

\* The arrangements of the entries that slices.SortFunc can leave.
SortedArrangements(entries) ==
    {out \in [1..Cardinality(entries) -> entries] :
        /\ \A i, j \in 1..Cardinality(entries) : i # j => out[i] # out[j]
        /\ \A i, j \in 1..Cardinality(entries) :
               i < j => LeaderboardCompare(out[i], out[j]) <= 0}

\* out[:limit]
Truncate(out, limit) ==
    IF limit > 0 /\ Len(out) > limit THEN SubSeq(out, 1, limit) ELSE out

\* The filter Leaderboard hands to the store, lines 1524-1531; t is the
\* reading of the clock, taken when the request asks for a window.
LeaderboardFilter(request, t) ==
    [Workflow |-> TrimSpace(request.Workflow),
     Model |-> TrimSpace(request.Model),
     PromptVersion |-> TrimSpace(request.PromptVersion),
     CreatedAfter |->
         IF request.WindowDays > 0
         THEN Once(LAMBDA duration :
                       Once(FormatRFC3339Nano, InstantAdd(InstantOf(t), duration)),
                   WindowDuration(request.WindowDays))
         ELSE <<>>]

\* Leaderboard, lines 1517-1522: the checks of the request.
LeaderboardRefusal(request) ==
    IF request.Limit < 0
    THEN [code |-> CodeInvalidArgument, msg |-> <<"limit must be non-negative">>]
    ELSE IF request.WindowDays < 0
    THEN [code |-> CodeInvalidArgument, msg |-> <<"window_days must be non-negative">>]
    ELSE [code |-> OK, msg |-> <<>>]

\* HubService.Leaderboard on the store of the kind store: the answer code
\* and every list it can return.
Leaderboard(items, request, t, store) ==
    LET Listed(filter) ==
            IF store = "file" THEN ListPromptAttemptsFiltered(items, filter)
            ELSE PgListPromptAttemptsFiltered(items, filter)
        Ranking(found) ==
            LET keys == {GroupKey(found[i]) : i \in 1..Len(found)}
                entries == {LeaderboardEntryOf(found, key) : key \in keys}
            IN  {Truncate(out, request.Limit) : out \in SortedArrangements(entries)}
    IN  IF LeaderboardRefusal(request).code # OK
        THEN [code |-> LeaderboardRefusal(request).code,
              msg |-> LeaderboardRefusal(request).msg, outs |-> {<<>>}]
        ELSE [code |-> OK, msg |-> <<>>,
              outs |-> Once(Ranking, Once(Listed, LeaderboardFilter(request, t)))]

BoardAttempt(workflow, promptVersion, model, outcome, cost, latency) ==
    [Workflow |-> workflow, PromptVersion |-> promptVersion, Model |-> model,
     Outcome |-> outcome, CostUSD |-> cost, LatencyMS |-> latency]

\* Attempts of six groups: two that differ in the model only, one of a
\* later prompt version, one that costs a dollar, and two whose scores are
\* one thousandth below zero before rounding, the first from a latency of
\* 100.001 seconds and the second from a cost of one dollar and a latency
\* of one millisecond.
BoardAttempts ==
    {BoardAttempt(<<"wf">>, <<"v1">>, <<"m1">>, <<"success">>, 0, 0),
     BoardAttempt(<<"wf">>, <<"v1">>, <<"m2">>, <<"success">>, 0, 0),
     BoardAttempt(<<"wf">>, <<"v2">>, <<"m1">>, <<"success">>, 0, 0),
     BoardAttempt(<<" ", "wg">>, <<"v3", " ">>, <<"m1", " ">>, <<" ", "success">>, 1, 0),
     BoardAttempt(<<"wh">>, <<"v4">>, <<"m1">>, <<"success">>, 0, 100001),
     BoardAttempt(<<"wh">>, <<"v5">>, <<"m1">>, <<"success">>, 1, 1)}

\* The attempt a caller beside the first one records: a failure of the
\* later prompt version.
BesideAttempt == BoardAttempt(<<"wf">>, <<"v2">>, <<"m1">>, <<"failed">>, 0, 0)

LeaderboardRequest(workflow, windowDays, limit) ==
    [Workflow |-> workflow, Model |-> <<>>, PromptVersion |-> <<>>,
     WindowDays |-> windowDays, Limit |-> limit]

\* The least number of days whose nanoseconds no int64 holds.
WrappingWindow == 106752

LeaderboardRequests ==
    {LeaderboardRequest(<<>>, 0, 0), LeaderboardRequest(<<>>, 0, 1),
     LeaderboardRequest(<<" ", "wf">>, 0, 0),
     LeaderboardRequest(<<>>, 1, 0), LeaderboardRequest(<<>>, WrappingWindow, 0),
     LeaderboardRequest(<<>>, 0, -1)}

\* RecordPromptAttempt, line 1275: newID reads the clock and draws.  The
\* callers come on the first day, the one beside the first one before it.
AttemptID(p, a) ==
    /\ procs[p].pc = "idle"
    /\ Len(nextId["pat"]) < MaxBoard
    /\ now < MsPerDay
    /\ p # Caller => nextId["pat"] = <<>>
    /\ \E random \in RandomDraws(nextId["pat"], now) :
          /\ procs' = [procs EXCEPT ![p] =
                          Goto(NewProc("RecordPromptAttempt", a), "stamp",
                               [id |-> newID("pat", now, random)])]
          /\ nextId' = [nextId EXCEPT !["pat"] = Issue(@, now, random)]
    /\ UNCHANGED <<idemVars, now, policy, policyCaps, runs, attempts, runEvents, last,
                   edgeVars>>

\* RecordPromptAttempt, lines 1276-1294: the attempt, with its texts
\* trimmed and timeNow() for created_at.
AttemptStamp(p) ==
    /\ procs[p].op = "RecordPromptAttempt" /\ procs[p].pc = "stamp"
    /\ procs' = [procs EXCEPT ![p] =
                    Goto(@, "insert",
                         [attempt |->
                             [ID |-> @.loc.id, Workflow |-> TrimSpace(@.req.Workflow),
                              PromptVersion |-> TrimSpace(@.req.PromptVersion),
                              Model |-> TrimSpace(@.req.Model),
                              Outcome |-> TrimSpace(@.req.Outcome),
                              CostUSD |-> @.req.CostUSD, LatencyMS |-> @.req.LatencyMS,
                              CreatedAt |-> timeNow]])]
    /\ UNCHANGED <<idemVars, nextId, now, policy, policyCaps, runs, attempts, runEvents,
                   last, edgeVars>>

\* RecordPromptAttempt, lines 1296-1299: the store keeps the attempt and
\* writes its data file or fails to, and the call returns.
InsertAttempt(p) ==
    /\ procs[p].op = "RecordPromptAttempt" /\ procs[p].pc = "insert"
    /\ attempts' = InsertPromptAttempt(attempts, procs[p].loc.attempt)
    /\ \E saved \in PersistOutcomes :
          last' = [op |-> "RecordPromptAttempt", code |-> persistLocked(saved),
                   msg |-> PersistFailure(saved)]
    /\ procs' = [procs EXCEPT ![p] = IdleProc]
    /\ UNCHANGED <<idemVars, nextId, now, policy, policyCaps, runs, runEvents, edgeVars>>

\* Leaderboard, lines 1517-1531: the request is checked and, when it asks
\* for a window, time.Now() is read before the store is.  A refusal is
\* returned at once and kept in last.
LeaderboardCall(p, request) ==
    /\ procs[p].pc = "idle"
    /\ \E r \in {LeaderboardRefusal(request)} :
          IF r.code # OK
          THEN /\ last' = [op |-> "Leaderboard", req |-> request, code |-> r.code,
                           msg |-> r.msg, out |-> <<>>, at |-> 0, store |-> "",
                           filter |-> <<>>]
               /\ UNCHANGED procs
          ELSE /\ procs' = [procs EXCEPT ![p] =
                               Goto(NewProc("Leaderboard", request), "read",
                                    [t |-> IF request.WindowDays > 0 THEN now ELSE 0])]
               /\ UNCHANGED last
    /\ UNCHANGED <<idemVars, nextId, now, policy, policyCaps, runs, attempts, runEvents,
                   edgeVars>>

\* Leaderboard, lines 1532-1614: the attempts are read from the store,
\* grouped and ranked, and the call returns.
LeaderboardReads(p) ==
    /\ procs[p].op = "Leaderboard" /\ procs[p].pc = "read"
    /\ \E store \in StoreKinds :
          \E r \in {Leaderboard(attempts, procs[p].req, procs[p].loc.t, store)} :
             \E out \in r.outs :
                last' = [op |-> "Leaderboard", req |-> procs[p].req, code |-> r.code,
                         msg |-> r.msg, out |-> out, at |-> procs[p].loc.t,
                         store |-> store,
                         filter |-> LeaderboardFilter(procs[p].req, procs[p].loc.t)]
    /\ procs' = [procs EXCEPT ![p] = IdleProc]
    /\ UNCHANGED <<idemVars, nextId, now, policy, policyCaps, runs, attempts, runEvents,
                   edgeVars>>

\* The next reading of the clock is a day later, to the millisecond or
\* with a millisecond more.
NextDay ==
    /\ now < MsPerDay
    /\ \E more \in {0, 1} : now' = now + MsPerDay + more
    /\ UNCHANGED <<idemVars, nextId, hubVars, edgeVars>>

NextBoard ==
    \/ \E a \in BoardAttempts : AttemptID(Caller, a)
    \/ \E p \in ProcIds \ {Caller} : AttemptID(p, BesideAttempt)
    \/ \E p \in ProcIds : AttemptStamp(p)
    \/ \E p \in ProcIds : InsertAttempt(p)
    \/ \E request \in LeaderboardRequests : LeaderboardCall(Caller, request)
    \/ \E p \in ProcIds : LeaderboardReads(p)
    \/ NextDay

SpecBoard == Init /\ [][NextBoard]_vars

----------------------------------------------------------------------------
(* Properties of the leaderboard *)

\* The last call was a Leaderboard call that succeeded.
Ranked == last.op = "Leaderboard" /\ last.code = OK

\* The stored attempts the store of the last call hands over for its filter.
Asked(a) ==
    /\ last.filter.Workflow \in {<<>>, a.Workflow}
    /\ last.filter.Model \in {<<>>, a.Model}
    /\ last.filter.PromptVersion \in {<<>>, a.PromptVersion}
    /\ last.filter.CreatedAfter # <<>> =>
          IF last.store = "file"
          THEN LowerID(last.filter.CreatedAfter, a.CreatedAt)
          ELSE InstantCompare(Timestamptz(last.filter.CreatedAfter),
                              Timestamptz(a.CreatedAt)) <= 0

GroupOf(a) == <<a.Workflow, a.PromptVersion, a.Model>>

AskedGroups == {GroupOf(attempts[i]) : i \in {k \in 1..Len(attempts) : Asked(attempts[k])}}

MembersOf(g) == {i \in 1..Len(attempts) : Asked(attempts[i]) /\ GroupOf(attempts[i]) = g}

RECURSIVE TotalOf(_, _)
TotalOf(members, field) ==
    IF members = {} THEN 0
    ELSE LET i == CHOOSE k \in members : TRUE
         IN  attempts[i][field] + TotalOf(members \ {i}, field)

SuccessesIn(g) == Cardinality({i \in MembersOf(g) : attempts[i].Outcome = <<"success">>})

\* successes/attempts, and the averages of the cost and of the latency.
RateOfGroup(g) == FloatQuotient(Float64(SuccessesIn(g)), Cardinality(MembersOf(g)))

AverageIn(g, field) ==
    FloatQuotient(Float64(TotalOf(MembersOf(g), field)), Cardinality(MembersOf(g)))

\* success_rate*100 - average_cost*100 - average_latency/1000
ScoreOfGroup(g) ==
    FloatDifference(
        FloatDifference(FloatProduct(RateOfGroup(g), 100),
                        FloatProduct(AverageIn(g, "CostUSD"), 100)),
        FloatQuotient(AverageIn(g, "LatencyMS"), 1000))

\* Group g does not rank after group h: higher score, or the same score and
\* a higher success rate, or both the same and a prompt version not after.
NotAfter(g, h) ==
    \/ FloatCompare(ScoreOfGroup(g), ScoreOfGroup(h)) > 0
    \/ /\ ScoreOfGroup(g) = ScoreOfGroup(h)
       /\ \/ FloatCompare(RateOfGroup(g), RateOfGroup(h)) > 0
          \/ /\ RateOfGroup(g) = RateOfGroup(h)
             /\ ~LowerID(h[2], g[2])

EntryGroup(e) == <<e.Workflow, e.PromptVersion, e.Model>>

\* C23: the leaderboard has one entry per group (workflow, prompt_version,
\* model) of the attempts asked for, with the group's counts, success rate,
\* averages and score; the entries are in the order score descending, then
\* success rate descending, then prompt_version ascending, and a positive
\* limit keeps the first limit entries of that order.
C23_LeaderboardIsRanked ==
    Ranked =>
        /\ \A i \in 1..Len(last.out) :
              LET e == last.out[i]
                  g == EntryGroup(e)
                  n == Cardinality(MembersOf(g))
              IN  /\ g \in AskedGroups
                  /\ e.Attempts = n
                  /\ e.SuccessAttempts = SuccessesIn(g)
                  /\ e.FailedAttempts = n - SuccessesIn(g)
                  /\ e.SuccessRate = RateOfGroup(g)
                  /\ e.AverageCostUSD = AverageIn(g, "CostUSD")
                  /\ e.AverageLatencyMS = AverageIn(g, "LatencyMS")
                  /\ e.Score = ScoreOfGroup(g)
        /\ \A i, j \in 1..Len(last.out) :
              /\ i # j => EntryGroup(last.out[i]) # EntryGroup(last.out[j])
              /\ i < j => NotAfter(EntryGroup(last.out[i]), EntryGroup(last.out[j]))
        /\ Len(last.out) =
              IF last.req.Limit > 0 /\ Cardinality(AskedGroups) > last.req.Limit
              THEN last.req.Limit
              ELSE Cardinality(AskedGroups)
        /\ \A g \in AskedGroups :
              (\A i \in 1..Len(last.out) : EntryGroup(last.out[i]) # g) =>
                  \A i \in 1..Len(last.out) : NotAfter(EntryGroup(last.out[i]), g)

\* Two groups with the same score, of which the one with the higher success
\* rate came first.
C23_Witness ==
    /\ Ranked
    /\ Len(last.out) = 2
    /\ FloatCompare(last.out[1].Score, last.out[2].Score) = 0
    /\ FloatCompare(last.out[1].SuccessRate, last.out[2].SuccessRate) > 0

\* C24: for the same stored attempts, store, request and clock reading,
\* a Leaderboard call returns the list the call before it returned.
C24_SameRanking ==
    [][(/\ Ranked
        /\ last'.op = "Leaderboard"
        /\ last'.req = last.req
        /\ last'.at = last.at
        /\ last'.store = last.store
        /\ attempts' = attempts) => last'.out = last.out]_vars

----------------------------------------------------------------------------
(* Tasks with tags *)

\* HubService.UpdateTask, lines 866-897: the task it is about to write,
\* from the list that store.ListTasks returned.
UpdateTask(items, request) ==
    LET id == TrimSpace(request.ID)
        found == {i \in 1..Len(items) : items[i].id = id}
        old == items[CHOOSE i \in found : \A j \in found : i <= j]
        task == [old EXCEPT
                   !.title = IF TrimSpace(request.Title) # <<>>
                             THEN TrimSpace(request.Title) ELSE @,
                   !.details = IF request.Details # <<>>
                               THEN TrimSpace(request.Details) ELSE @,
                   !.status = IF request.Status # <<>> THEN TrimSpace(request.Status) ELSE @,
                   !.tags = IF IsSet(request.Tags) THEN normalizeTags(request.Tags) ELSE @]
    IN  IF id = <<>>
        THEN [code |-> CodeInvalidArgument, task |-> <<>>]
        ELSE IF found = {}
        THEN [code |-> CodeNotFound, task |-> <<>>]
        ELSE IF request.Status # <<>> /\ TrimSpace(request.Status) \notin validTaskStatuses
        THEN [code |-> CodeInvalidArgument, task |-> <<>>]
        ELSE [code |-> OK, task |-> task]

TagTexts == {<<"a">>, <<" ", "A", " ">>, <<"b">>, <<" ">>}

TagLists ==
    {Nil} \cup {<<tags>> : tags \in UNION {[1..n -> TagTexts] : n \in 0..MaxTags}}

\* CreateTask up to line 851: the request is checked and newID makes the
\* identifier.  A refusal is returned at once and kept in last.
CreateTaskCall(p, request) ==
    /\ procs[p].pc = "idle"
    /\ Len(nextId["task"]) < MaxTasks
    /\ \E random \in RandomDraws(nextId["task"], now) :
          \E r \in {CreateTask(tasks, nextId, request, TaskStart, now, random, "saved")} :
             /\ nextId' = r.nextId
             /\ IF r.at.pc = "done"
                THEN /\ last' = [op |-> "CreateTask", req |-> request, code |-> r.code,
                                 task |-> r.task, out |-> <<>>]
                     /\ UNCHANGED procs
                ELSE /\ procs' = [procs EXCEPT ![p] =
                                     Goto(NewProc("CreateTask", request), r.at.pc,
                                          [task |-> r.at.task])]
                     /\ UNCHANGED last
    /\ UNCHANGED <<idemVars, now, policy, policyCaps, runs, attempts, runEvents, edgeVars>>

\* Lines 856-862: timeNow() for created_at, timeNow() for updated_at, and
\* store.UpsertTask, one step each; the store writes its data file or fails
\* to.
CreateTaskProceeds(p) ==
    /\ procs[p].op = "CreateTask" /\ procs[p].pc \in {"created", "updated", "upsert"}
    /\ \E saved \in (IF procs[p].pc = "upsert" THEN PersistOutcomes ELSE {"saved"}) :
       \E r \in {CreateTask(tasks, nextId, procs[p].req,
                             [pc |-> procs[p].pc, task |-> procs[p].loc.task], now, 0,
                             saved)} :
          /\ tasks' = r.tasks
          /\ IF r.at.pc = "done"
             THEN /\ last' = [op |-> "CreateTask", req |-> procs[p].req, code |-> r.code,
                              task |-> r.task, out |-> <<>>]
                  /\ procs' = [procs EXCEPT ![p] = IdleProc]
             ELSE /\ procs' = [procs EXCEPT ![p] = Goto(@, r.at.pc, [task |-> r.at.task])]
                  /\ UNCHANGED last
    /\ UNCHANGED <<idempotency, calls, nextId, now, policy, policyCaps, runs, attempts,
                   runEvents, edgeVars>>

\* UpdateTask up to line 897: the tasks are read from the store and the
\* task of the request is looked up in them.  What the call returns is
\* kept in last, and the caller is free for its next call.
UpdateTaskCall(p, request) ==
    /\ procs[p].pc = "idle"
    /\ \E r \in {UpdateTask(tasks, request)} :
          IF r.code # OK
          THEN /\ procs' = [procs EXCEPT ![p] = IdleProc]
               /\ last' = [op |-> "UpdateTask", req |-> request, code |-> r.code,
                           task |-> r.task, out |-> <<>>]
          ELSE /\ procs' = [procs EXCEPT ![p] =
                               Goto(NewProc("UpdateTask", request), "clock",
                                    [task |-> r.task])]
               /\ UNCHANGED last
    /\ UNCHANGED <<idemVars, nextId, now, policy, policyCaps, runs, attempts, runEvents,
                   edgeVars>>

\* Line 898: items[i].UpdatedAt = timeNow()
UpdateTaskStamps(p) ==
    /\ procs[p].op = "UpdateTask" /\ procs[p].pc = "clock"
    /\ procs' = [procs EXCEPT ![p] =
                    Goto(@, "write", [task |-> [@.loc.task EXCEPT !.updated_at = timeNow]])]
    /\ UNCHANGED <<idemVars, nextId, now, policy, policyCaps, runs, attempts, runEvents,
                   last, edgeVars>>

\* Lines 899-904: store.UpsertTask with the task as it was read and changed;
\* the store keeps the task and writes its data file or fails to; err is
\* what persistLocked returns.
UpdateTaskWrites(p) ==
    /\ procs[p].op = "UpdateTask" /\ procs[p].pc = "write"
    /\ tasks' = UpsertTask(tasks, procs[p].loc.task)
    /\ procs' = [procs EXCEPT ![p] = IdleProc]
    /\ \E err \in {persistLocked(saved) : saved \in PersistOutcomes} :
          last' = [op |-> "UpdateTask", req |-> procs[p].req, code |-> err,
                   task |-> IF err = OK THEN procs[p].loc.task ELSE <<>>,
                   out |-> <<>>]
    /\ UNCHANGED <<idempotency, calls, nextId, now, policy, policyCaps, runs, attempts,
                   runEvents, edgeVars>>

\* HubService.DeleteTask: the store writes its data file, or fails to,
\* also when it holds no task with the id; err is what persistLocked
\* returns.
DeleteTaskCall(id) ==
    /\ \E found \in {\E i \in 1..Len(tasks) : tasks[i].id = TrimSpace(id)},
          err \in (IF TrimSpace(id) = <<>> THEN {OK}
                   ELSE {persistLocked(saved) : saved \in PersistOutcomes}) :
          /\ tasks' = IF TrimSpace(id) = <<>> THEN tasks
                      ELSE StoreDeleteTask(tasks, TrimSpace(id))
          /\ last' = [op |-> "DeleteTask", req |-> TaskRequest(id, <<>>, Nil),
                      code |-> IF TrimSpace(id) = <<>> THEN CodeInvalidArgument
                               ELSE IF err # OK THEN err
                               ELSE IF found THEN OK ELSE CodeNotFound,
                      task |-> <<>>, out |-> <<>>]
    /\ UNCHANGED <<idempotency, calls, nextId, now, policy, policyCaps, runs, attempts,
                   runEvents, procs, edgeVars>>

\* ListTasks, called after a CreateTask or an UpdateTask.
ListTasksCall ==
    /\ last.op \in {"CreateTask", "UpdateTask"}
    /\ last' = [last EXCEPT !.op = "ListTasks", !.out = ListTasks(tasks)]
    /\ UNCHANGED <<idemVars, nextId, now, policy, policyCaps, runs, attempts, runEvents,
                   procs, edgeVars>>

\* The tag lists of the CreateTask requests: none, an empty one, two tags
\* in both orders, one tag written twice, and a blank tag before another.
CreateTagLists ==
    {tags \in TagLists :
        \/ ~IsSet(tags)
        \/ Val(tags) \in {<<>>, <<<<"a">>, <<"b">>>>, <<<<"b">>, <<"a">>>>,
                           <<<<"a">>, <<" ", "A", " ">>>>, <<<<" ">>, <<"a">>>>}}

\* The CreateTask requests: one without a title, and one with a title for
\* each of the tag lists.
CreateTaskRequests ==
    {TaskRequest(<<>>, <<>>, Nil)}
    \cup {TaskRequest(<<>>, <<"t">>, tags) : tags \in CreateTagLists}

\* The UpdateTask requests: for the first task no tag list, an empty one,
\* two tags in reverse order, and one tag written twice; for the second
\* task two tags in reverse order.
UpdateTaskRequests ==
    {TaskRequest(id, <<>>, tags) :
        id \in {IssuedID("task", 1)},
        tags \in {Nil, <<<<>>>>, <<<<<<"b">>, <<"a">>>>>>,
                  <<<<<<" ", "A", " ">>, <<"a">>>>>>}}
    \cup {TaskRequest(IssuedID("task", 2), <<>>, <<<<<<"b">>, <<"a">>>>>>)}

\* A caller beside the first one gives the first task the tag "b".
BesideUpdate == TaskRequest(IssuedID("task", 1), <<>>, <<<<<<"b">>>>>>)

\* A caller beside the first one creates a task with the tag "b".
BesideCreate == TaskRequest(<<>>, <<"t">>, <<<<<<"b">>>>>>)

\* The tasks DeleteTask is asked to delete: the first one, and none.
DeleteTaskIDs == {IssuedID("task", 1), <<" ">>}

NextTags ==
    \/ \E request \in CreateTaskRequests : CreateTaskCall(Caller, request)
    \/ \E p \in ProcIds \ {Caller} : CreateTaskCall(p, BesideCreate)
    \/ \E p \in ProcIds : CreateTaskProceeds(p)
    \/ \E request \in UpdateTaskRequests : UpdateTaskCall(Caller, request)
    \/ \E p \in ProcIds \ {Caller} : UpdateTaskCall(p, BesideUpdate)
    \/ \E p \in ProcIds : UpdateTaskStamps(p)
    \/ \E p \in ProcIds : UpdateTaskWrites(p)
    \/ \E id \in DeleteTaskIDs : DeleteTaskCall(id)
    \/ ListTasksCall
    \/ Tick

SpecTags == Init /\ [][NextTags]_vars

\* The tags ListTasks shows for the task the call before it wrote.
ListedTags ==
    LET i == CHOOSE k \in 1..Len(last.out) : last.out[k].id = last.task.id
    IN  last.out[i].tags

\* A CreateTask or UpdateTask with a tag list succeeded and ListTasks followed.
TagsListed ==
    /\ last.op = "ListTasks"
    /\ last.code = OK
    /\ IsSet(last.req.Tags)

\* C25: the tags ListTasks returns after CreateTask or UpdateTask are lower
\* case, trimmed and not empty, none occurs twice, each comes from an input
\* tag, they are the same for every order of the input tags, and
\* normalising them again changes nothing.
C25_TagsAreNormalised ==
    TagsListed =>
        /\ \A i \in 1..Len(ListedTags) :
              /\ ListedTags[i] # <<>>
              /\ ListedTags[i] = ToLower(TrimSpace(ListedTags[i]))
              /\ \E k \in 1..Len(Val(last.req.Tags)) :
                    ListedTags[i] = ToLower(TrimSpace(Val(last.req.Tags)[k]))
        /\ \A i, j \in 1..Len(ListedTags) : i # j => ListedTags[i] # ListedTags[j]
        /\ \A k \in 1..Len(Val(last.req.Tags)) :
              ToLower(TrimSpace(Val(last.req.Tags)[k])) # <<>> =>
                  \E i \in 1..Len(ListedTags) :
                      ListedTags[i] = ToLower(TrimSpace(Val(last.req.Tags)[k]))
        /\ \A tags \in Orderings(Val(last.req.Tags)) : normalizeTags(<<tags>>) = ListedTags
        /\ normalizeTags(<<ListedTags>>) = ListedTags

----------------------------------------------------------------------------
(* Events of runs in every status: runs are started and finished as        *)
(* completed, failed or cancelled, and events are recorded for them.       *)

EventFinishRequests ==
    {FinishRunRequest(FirstRunID, <<"completed">>, <<>>),
     FinishRunRequest(FirstRunID, <<"failed">>, <<"boom">>),
     FinishRunRequest(FirstRunID, <<"cancelled">>, <<>>)}

EventRequests ==
    {RunEventRequest(FirstRunID, <<"note">>, <<>>),
     RunEventRequest(IssuedID("run", 2), <<"note">>, <<"warn">>),
     RunEventRequest(UnknownRunID, <<"note">>, <<>>),
     RunEventRequest(FirstRunID, <<"note">>, <<"loud">>),
     RunEventRequest(FirstRunID, <<" ">>, <<>>)}

NextEvents ==
    \/ \E req \in StartRunRequests : StartRunCall(req)
    \/ \E req \in EventFinishRequests : FinishRunCall(req)
    \/ \E req \in EventRequests : RecordRunEventCall(req)
    \/ Beside(BesideRun)
    \/ Proceed
    \/ Tick

SpecEvents == Init /\ [][NextEvents]_vars

\* The request passes RecordRunEvent's checks of its own fields.
WellFormedEvent(req) ==
    /\ TrimSpace(req.RunID) # <<>>
    /\ TrimSpace(req.EventType) # <<>>
    /\ TrimSpace(req.Level) \in validEventLevels \cup {<<>>}

RunKnown(items, runID) == \E i \in 1..Len(items) : items[i].ID = runID

\* C26: a well-formed RecordRunEvent that finds its run stored succeeds and
\* stores one event of that run, whatever the run's status; one that finds
\* no run with the id answers NotFound and stores nothing; and every stored
\* event names a stored run.
C26_EventsNeedAnExistingRun ==
    /\ [][\A c \in Answers :
           (c.op = "RecordRunEvent" /\ WellFormedEvent(c.req)) =>
               IF RunKnown(c.read.runs, TrimSpace(c.req.RunID))
               THEN /\ c.code = OK
                    /\ Len(c.wrote.runEvents) = 1
                    /\ c.wrote.runEvents[1].RunID = TrimSpace(c.req.RunID)
               ELSE /\ c.code = CodeNotFound
                    /\ WroteNothing(c)]_vars
    /\ [][\A i \in 1..Len(runEvents') : RunKnown(runs', runEvents'[i].RunID)]_vars

\* C26, with the failure of the store: a well-formed RecordRunEvent that
\* finds its run stored hands the store one event of that run, whatever the
\* run's status, and succeeds unless the store fails to write the data file,
\* when it answers Internal; one that finds no run with the id answers
\* NotFound and stores nothing; and every stored event names a stored run.
C26_EventsNeedOnlyAnExistingRun ==
    /\ [][\A c \in Answers :
           (c.op = "RecordRunEvent" /\ WellFormedEvent(c.req)) =>
               IF RunKnown(c.read.runs, TrimSpace(c.req.RunID))
               THEN /\ c.code = OK \/ WriteFailed(c)
                    /\ Len(c.wrote.runEvents) = 1
                    /\ c.wrote.runEvents[1].RunID = TrimSpace(c.req.RunID)
               ELSE /\ c.code = CodeNotFound
                    /\ WroteNothing(c)]_vars
    /\ [][\A i \in 1..Len(runEvents') : RunKnown(runs', runEvents'[i].RunID)]_vars

\* An event of a run that had been cancelled reached the store, which
\* failed to write the file.
C26_Witness ==
    \E c \in Finished :
        /\ c.op = "RecordRunEvent"
        /\ WriteFailed(c)
        /\ \E j \in 1..Len(c.read.runs) :
              /\ c.read.runs[j].ID = TrimSpace(c.req.RunID)
              /\ c.read.runs[j].Status = <<"cancelled">>
        /\ \E i \in 1..Len(runEvents) : runEvents[i].RunID = TrimSpace(c.req.RunID)

----------------------------------------------------------------------------
(* SetPolicy with no field, with one field, with every field but the      *)
(* latency limit, and with a negative limit alone or after other fields.   *)

NoPolicyField == LimitsRequest(Nil, Nil, Nil, Nil)

PolicyRequests ==
    {NoPolicyField,
     [NoPolicyField EXCEPT !.KillSwitch = <<TRUE>>],
     [NoPolicyField EXCEPT !.KillSwitchReason = <<<<" ", "halt">>>>],
     [NoPolicyField EXCEPT !.MaxCostPerRunUSD = <<2>>],
     [NoPolicyField EXCEPT !.MaxAttemptsPerRun = <<1>>],
     [NoPolicyField EXCEPT !.MaxTokensPerRun = <<3>>],
     [KillSwitch |-> <<TRUE>>, KillSwitchReason |-> <<<<" ", "halt">>>>,
      MaxCostPerRunUSD |-> <<2>>, MaxAttemptsPerRun |-> <<1>>,
      MaxTokensPerRun |-> <<3>>, MaxLatencyPerAttemptMS |-> Nil],
     LimitsRequest(Nil, <<-1>>, Nil, Nil),
     LimitsRequest(<<2>>, Nil, Nil, <<-1>>),
     LimitsRequest(Nil, Nil, Nil, <<-1>>)}

\* A caller beside the first one sets the limit on a run's tokens.
BesidePolicy == {<<"SetPolicy", LimitsRequest(Nil, Nil, <<3>>, Nil)>>}

NextPolicy ==
    \/ \E req \in PolicyRequests : SetPolicyCall(req)
    \/ Beside(BesidePolicy)
    \/ Proceed
    \/ Tick

SpecPolicy == Init /\ [][NextPolicy]_vars

\* The value a present field of the request asks for.
Requested(req, name) ==
    IF name = "KillSwitchReason" THEN TrimSpace(Val(req[name])) ELSE Val(req[name])

PolicyFields == {"KillSwitch", "KillSwitchReason"} \cup {PolicyLimitFields[i] : i \in 1..4}

HasNegative(req) ==
    \E i \in 1..Len(PolicyLimitFields) :
        IsSet(req[PolicyLimitFields[i]]) /\ Val(req[PolicyLimitFields[i]]) < 0

\* C27: a SetPolicy with a negative numeric field answers InvalidArgument
\* and stores nothing; the write of any other SetPolicy changes the stored
\* policy in the fields the request carries, which take the requested
\* values, and in updated_at, and in no other field: each of those is after
\* the write what was stored before it.
C27_SetPolicyFrame ==
    /\ [][\A c \in Answers :
           (c.op = "SetPolicy" /\ HasNegative(c.req)) =>
               c.code = CodeInvalidArgument /\ WroteNothing(c)]_vars
    /\ [][\A p \in ProcIds :
           (procs[p].op = "SetPolicy" /\ procs[p].pc = "set" /\ procs'[p] # procs[p]) =>
               /\ \E t \in ClockStart..now : policy'.UpdatedAt = timeNowAt(t)
               /\ \A name \in PolicyFields :
                      policy'[name] = IF IsSet(procs[p].req[name])
                                      THEN Requested(procs[p].req, name)
                                      ELSE policy[name]]_vars

----------------------------------------------------------------------------
(* The cap selected for a request, against the caps that could be selected *)

\* The caps of the list that are active and whose selectors are each empty
\* or equal to the request's, written from the claim and not from the loop.
Compatible(list, sel) ==
    {list[i] : i \in {k \in 1..Len(list) :
        /\ list[k].IsActive
        /\ list[k].ProviderType \in {<<>>, sel.ProviderType}
        /\ list[k].Provider \in {<<>>, sel.Provider}
        /\ list[k].Model \in {<<>>, sel.Model}}}

NonEmptySelectors(cap) ==
    Cardinality({name \in {"ProviderType", "Provider", "Model"} : cap[name] # <<>>})

\* C28: selectPolicyCap finds no cap exactly when no cap of the list is
\* active and compatible with the request; the cap it finds is active and
\* compatible, no active compatible cap has more non-empty selectors, and
\* none with as many has a higher priority.
C28_SelectsMostSpecific ==
    \A p \in Resolved :
        LET sel == Resolution(p)
            live == Compatible(sel.caps, sel.req)
        IN  /\ sel.out.found <=> live # {}
            /\ sel.out.found =>
                   /\ sel.out.cap \in live
                   /\ \A cap \in live :
                          /\ NonEmptySelectors(cap) <= NonEmptySelectors(sel.out.cap)
                          /\ NonEmptySelectors(cap) = NonEmptySelectors(sel.out.cap) =>
                                 cap.Priority <= sel.out.cap.Priority

\* A cap with two selectors has been selected although a cap of the list
\* with none is active, compatible and of higher priority.
C28_Witness ==
    \E p \in Resolved :
        /\ Resolution(p).out.found
        /\ NonEmptySelectors(Resolution(p).out.cap) = 2
        /\ \E cap \in Compatible(Resolution(p).caps, Resolution(p).req) :
               /\ NonEmptySelectors(cap) = 0
               /\ cap.Priority > Resolution(p).out.cap.Priority

----------------------------------------------------------------------------
(* The effective limits, field by field *)

OverlayLimits == {"latency", "attempts", "cost", "tokens"}

InPolicy(name, c) ==
    CASE name = "latency" -> c.read.policy.MaxLatencyPerAttemptMS
      [] name = "attempts" -> c.read.policy.MaxAttemptsPerRun
      [] name = "cost" -> c.read.policy.MaxCostPerRunUSD
      [] name = "tokens" -> c.read.policy.MaxTokensPerRun

\* The effective value of a limit as the claim states it.
Stated(name, c) ==
    IF name \in OverlayLimits
    THEN IF SelectedFor(c).found /\ InCap(name, SelectedFor(c).cap) > 0
         THEN InCap(name, SelectedFor(c).cap)
         ELSE InPolicy(name, c)
    ELSE IF SelectedFor(c).found THEN InCap(name, SelectedFor(c).cap) ELSE 0

\* C29: the limits an attempt is checked against are, for latency and the
\* three run limits, the selected cap's value when a cap is selected and
\* the value is positive and the global policy's otherwise, and for the
\* two attempt limits the selected cap's value or 0 without a cap; a limit
\* of 0 rejects nothing: an attempt that exceeds no positive limit is
\* handed to the store, with no event, and the call succeeds or answers with
\* the store's failure to write; a refusal for a limit names a positive
\* limit exceeded.
C29_EffectiveLimitsPerField ==
    [][\A c \in Answers :
          ReachesLimits(c) =>
              /\ \A name \in LimitNames : Effective(name, c) = Stated(name, c)
              /\ (\A name \in LimitNames :
                      \/ Stated(name, c) = 0
                      \/ Measured(name, c) <= Stated(name, c)) =>
                     /\ c.code = OK \/ WriteFailed(c)
                     /\ Len(c.wrote.attempts) = 1
                     /\ c.wrote.runEvents = <<>>
              /\ c.code = CodeResourceExhausted =>
                     \E name \in LimitNames :
                         /\ Stated(name, c) > 0
                         /\ Measured(name, c) > Stated(name, c)]_vars

\* An attempt has been stored under a cap that sets the attempt limits and
\* leaves latency to the global policy, with no limit on the run's tokens.
C29_Witness ==
    \E c \in Finished :
        /\ c.op = "RecordPromptAttempt"
        /\ c.code = OK
        /\ Len(attempts) = 1
        /\ SelectedFor(c).found
        /\ SelectedFor(c).cap.MaxCostPerAttemptUSD > 0
        /\ SelectedFor(c).cap.MaxLatencyPerAttemptMS = 0
        /\ c.read.policy.MaxLatencyPerAttemptMS > 0
        /\ LimitsFor(c).MaxTokensPerRun = 0
        /\ c.req.TokensIn + c.req.TokensOut > 0

----------------------------------------------------------------------------
(* Dry run and the limits the cap leaves to the global policy *)

\* The global policy limits attempts and latency, then the run's cost and
\* tokens; the dry-run cap on model m1 sets the attempt limits, or the run's
\* cost and tokens.
DryLimitsRequests ==
    {LimitsRequest(Nil, <<1>>, Nil, <<1>>), LimitsRequest(<<2>>, Nil, <<3>>, Nil)}

PartialDryCaps ==
    {[CapA EXCEPT !.MaxCostPerAttemptUSD = <<1>>, !.MaxTokensPerAttempt = <<2>>,
                  !.DryRun = <<TRUE>>],
     [CapA EXCEPT !.MaxCostPerRunUSD = <<2>>, !.MaxTokensPerRun = <<3>>,
                  !.DryRun = <<TRUE>>]}

NextDryGlobal ==
    \/ StartFirstRun
    \/ \E req \in DryLimitsRequests : SetPolicyCall(req)
    \/ \E req \in PartialDryCaps : UpsertPolicyCapCall(req)
    \/ \E req \in LimitedAttempts : RecordPromptAttemptCall(req)
    \/ Beside(BesideCaps)
    \/ Proceed

SpecDryGlobal == Init /\ [][NextDryGlobal]_vars

\* The limits a call violates whose value is the global policy's: the
\* selected cap has 0 in that field.
ViolatedGlobalLimits(c) ==
    {name \in OverlayLimits :
        /\ InCap(name, SelectedFor(c).cap) = 0
        /\ InPolicy(name, c) > 0
        /\ Measured(name, c) > InPolicy(name, c)}

\* C30: when the selected cap is dry-run and has 0 for a limit, so that
\* the limit in force is the global policy's, an attempt that violates that
\* limit fails with ResourceExhausted and is not stored.
C30_DryRunSparesOnlyCapLimits ==
    [][\A c \in Answers :
          (ReachesLimits(c) /\ DryRunSelected(c) /\ ViolatedGlobalLimits(c) # {}) =>
              /\ c.code = CodeResourceExhausted
              /\ c.wrote.attempts = <<>>]_vars

\* An attempt has been refused for the latency limit of the global policy
\* under a dry-run cap that sets other limits and no latency.
C30_Witness ==
    \E c \in Finished :
        /\ c.op = "RecordPromptAttempt"
        /\ c.code = CodeResourceExhausted
        /\ c.msg = <<"attempt latency exceeds policy cap (", "policy-cap:", "a", ")">>
        /\ DryRunSelected(c)
        /\ "latency" \in ViolatedGlobalLimits(c)
        /\ SelectedFor(c).cap.MaxCostPerAttemptUSD > 0
        /\ Counted(c) = <<>>

----------------------------------------------------------------------------
(* The source named by a refusal *)

\* The limit a ResourceExhausted message of RecordPromptAttempt is about.
LimitOfMessage(msg) ==
    CASE msg[1] = "attempt latency exceeds policy cap (" -> "latency"
      [] msg[1] = "attempt cost exceeds policy cap (" -> "attempt_cost"
      [] msg[1] = "attempt tokens exceed policy cap (" -> "attempt_tokens"
      [] msg[1] = "run exceeds max attempts cap (" -> "attempts"
      [] msg[1] = "run exceeds max cost cap (" -> "cost"
      [] msg[1] = "run exceeds max tokens cap (" -> "tokens"

\* The source the message names: what stands between the parentheses.
SourceOfMessage(msg) == SubSeq(msg, 2, Len(msg) - 1)

\* Where the value of a limit comes from for a call.
OriginOf(name, c) ==
    IF SelectedFor(c).found /\ InCap(name, SelectedFor(c).cap) > 0
    THEN <<"policy-cap:">> \o SelectedFor(c).cap.ID
    ELSE <<"global-policy">>

\* C31: a ResourceExhausted message of RecordPromptAttempt names the source
\* of the limit it reports: global-policy when that limit's value is the
\* global policy's, policy-cap:<id> when it is the selected cap's.
C31_MessageNamesTheSource ==
    [][\A c \in Answers :
          (ReachesLimits(c) /\ c.code = CodeResourceExhausted) =>
              SourceOfMessage(c.msg) = OriginOf(LimitOfMessage(c.msg), c)]_vars

----------------------------------------------------------------------------
(* A cap beside a stricter global policy *)

\* The cap on model m1 allows two attempts of latency 2 where the global
\* policy allows one of latency 1, or sets limits the policy also has.
WideCapRequests ==
    {[CapA EXCEPT !.MaxLatencyPerAttemptMS = <<2>>, !.MaxAttemptsPerRun = <<2>>],
     [CapA EXCEPT !.MaxCostPerRunUSD = <<2>>, !.MaxTokensPerRun = <<3>>]}

NextWide ==
    \/ StartFirstRun
    \/ \E req \in DryLimitsRequests : SetPolicyCall(req)
    \/ \E req \in WideCapRequests : UpsertPolicyCapCall(req)
    \/ \E req \in LimitedAttempts : RecordPromptAttemptCall(req)
    \/ Beside(BesideCaps)
    \/ Proceed

SpecWide == Init /\ [][NextWide]_vars

\* The shared limits of the global policy that alone refuse the call.
GlobalRefuses(c) ==
    {name \in OverlayLimits :
        InPolicy(name, c) > 0 /\ Measured(name, c) > InPolicy(name, c)}

\* C32: for each of the four shared limits, a positive global limit g gives
\* an effective limit e with 0 < e <= g whatever cap is selected, and an
\* attempt that exceeds a positive global limit is refused and not stored.
C32_CapOnlyNarrows ==
    [][\A c \in Answers :
          ReachesLimits(c) =>
              /\ \A name \in OverlayLimits :
                     InPolicy(name, c) > 0 =>
                         /\ 0 < Effective(name, c)
                         /\ Effective(name, c) <= InPolicy(name, c)
              /\ GlobalRefuses(c) # {} =>
                     /\ c.code = CodeResourceExhausted
                     /\ c.wrote.attempts = <<>>]_vars

----------------------------------------------------------------------------
(* The order of the checks of RecordPromptAttempt *)

\* Attempts that fail several checks at once: invalid and on no run, on no
\* run and over the cap's cost limit, invalid and over it, valid and over
\* it, and one that passes.
OrderAttempts ==
    {AttemptRequest(UnknownRunID, <<>>, <<"success">>, 1, 1, 2, 1),
     AttemptRequest(UnknownRunID, <<"m1">>, <<"success">>, 1, 1, 2, 1),
     AttemptRequest(FirstRunID, <<"m1">>, <<"failed">>, 1, 1, 2, -1),
     AttemptRequest(FirstRunID, <<"m1">>, <<"failed">>, 1, 1, 2, 1),
     AttemptRequest(FirstRunID, <<"m1">>, <<"success">>, 1, 1, 1, 1)}

OrderCaps ==
    {[CapA EXCEPT !.MaxCostPerAttemptUSD = <<1>>, !.DryRun = <<TRUE>>],
     [CapA EXCEPT !.DryRun = <<FALSE>>]}

\* The caller turns the kill switch on; a caller beside it turns it on and
\* off.
NextOrder ==
    \/ StartFirstRun
    \/ FinishRunCall(FinishRunRequest(FirstRunID, <<>>, <<>>))
    \/ SetPolicyCall(PolicyRequest(<<TRUE>>, Nil, Nil))
    \/ \E req \in OrderCaps : UpsertPolicyCapCall(req)
    \/ \E req \in OrderAttempts : RecordPromptAttemptCall(req)
    \/ Beside(BesideKill)
    \/ Proceed

SpecOrder == Init /\ [][NextOrder]_vars

\* The first of the four checks before the limits that a call fails on what
\* it read, as the code it is answered with; OK when it fails none.
FirstFailure(c) ==
    IF \/ TrimSpace(c.req.RunID) = <<>> \/ TrimSpace(c.req.Outcome) = <<>>
       \/ TrimSpace(c.req.Model) = <<>> \/ c.req.AttemptNumber <= 0
       \/ TrimSpace(c.req.Outcome) \notin validAttemptOutcomes
       \/ c.req.TokensIn < 0 \/ c.req.TokensOut < 0 \/ c.req.CostUSD < 0
       \/ c.req.LatencyMS < 0
    THEN CodeInvalidArgument
    ELSE IF c.read.policy.KillSwitch THEN CodeFailedPrecondition
    ELSE IF \A i \in 1..Len(c.read.runs) : c.read.runs[i].ID # TrimSpace(c.req.RunID)
    THEN CodeNotFound
    ELSE IF \E i \in 1..Len(c.read.runs) :
                /\ c.read.runs[i].ID = TrimSpace(c.req.RunID)
                /\ c.read.runs[i].Status # <<"running">>
    THEN CodeFailedPrecondition
    ELSE OK

\* C33: RecordPromptAttempt answers with the first check that fails, in the
\* order validation (InvalidArgument), kill switch (FailedPrecondition), run
\* lookup (NotFound), run status (FailedPrecondition), limits
\* (ResourceExhausted); a request that fails one of the first four stores
\* no event and no attempt.  A request that fails none of the first four is
\* accepted or refused for a limit, or has passed the limits and handed its
\* attempt to the store, which failed to write it.
C33_ChecksInOrder ==
    [][\A c \in Answers :
          c.op = "RecordPromptAttempt" =>
              IF FirstFailure(c) # OK
              THEN /\ c.code = FirstFailure(c)
                   /\ c.wrote.runEvents = <<>>
                   /\ c.wrote.attempts = <<>>
              ELSE \/ c.code \in {OK, CodeResourceExhausted}
                   \/ WriteFailed(c) /\ Len(c.wrote.attempts) = 1]_vars

\* An attempt on an unknown run, over the cost limit of a stored dry-run
\* cap, has been answered for the kill switch, with no event stored.
C33_Witness ==
    \E c \in Finished :
        /\ c.op = "RecordPromptAttempt"
        /\ c.code = CodeFailedPrecondition
        /\ c.read.policy.KillSwitch
        /\ \A i \in 1..Len(c.read.runs) : c.read.runs[i].ID # TrimSpace(c.req.RunID)
        /\ DryRunSelected(c)
        /\ c.req.CostUSD > SelectedFor(c).cap.MaxCostPerAttemptUSD
        /\ runEvents = <<>>

----------------------------------------------------------------------------
(* Concurrent attempts on one run under a limit on its attempts *)

\* The limit is set once, before any attempt is made.
SetAttemptsLimit ==
    /\ policy.MaxAttemptsPerRun = 0
    /\ \A p \in ProcIds : procs[p].op # "RecordPromptAttempt"
    /\ \E req \in {PolicyRequest(Nil, Nil, <<1>>), PolicyRequest(Nil, Nil, <<2>>)} :
           SetPolicyCall(req)

\* A caller makes its next call once its last one has returned; the limit
\* itself bounds what the callers store.
BeginAttempt(p) ==
    /\ procs[p].pc \in {"idle", "done"}
    /\ policy.MaxAttemptsPerRun > 0
    /\ runs # <<>>
    /\ procs' = [procs EXCEPT ![p] =
                    NewProc("RecordPromptAttempt",
                            AttemptRequest(FirstRunID, <<"m1">>, <<"success">>, 1, 1, 1, 1))]
    /\ UNCHANGED <<idemVars, nextId, now, policy, policyCaps, runs, attempts, runEvents,
                   last, edgeVars>>

NextRace ==
    \/ StartFirstRun
    \/ SetAttemptsLimit
    \/ \E p \in ProcIds : BeginAttempt(p)
    \/ \E p \in ProcIds : ProcStep(p)

SpecRace == Init /\ [][NextRace]_vars

\* C34: with MaxProcs callers of RecordPromptAttempt on one running run
\* under a limit of M > 0 attempts and no dry run, the run never has more
\* than M + MaxProcs attempts stored.
C34_OvershootIsBounded ==
    policy.MaxAttemptsPerRun > 0 =>
        Len(AttemptsOf(IssuedID("run", 1))) <= policy.MaxAttemptsPerRun + MaxProcs

\* Every caller has stored an attempt under a limit of one: the callers
\* read the run's attempts before any of them inserted.
C34_Witness ==
    /\ policy.MaxAttemptsPerRun = 1
    /\ Len(AttemptsOf(IssuedID("run", 1))) = MaxProcs
    /\ \A p \in ProcIds : procs[p].pc = "done" /\ procs[p].code = OK

----------------------------------------------------------------------------
(* Runs while attempts and events are recorded *)

\* C35: RecordPromptAttempt and RecordRunEvent write no run record, and
\* StartRun stores one run with status running, every counter and the
\* duration at zero and no finished_at: a run keeps these until FinishRun.
C35_RecordingLeavesRuns ==
    [][\A c \in Answers :
          /\ c.op \in {"RecordPromptAttempt", "RecordRunEvent"} => c.wrote.runs = <<>>
          /\ (c.op = "StartRun" /\ c.code = OK) =>
                 /\ Len(c.wrote.runs) = 1
                 /\ LET run == c.wrote.runs[1]
                    IN  /\ run.Status = <<"running">>
                        /\ run.TotalAttempts = 0 /\ run.SuccessAttempts = 0
                        /\ run.FailedAttempts = 0 /\ run.TotalTokensIn = 0
                        /\ run.TotalTokensOut = 0 /\ run.TotalCostUSD = 0
                        /\ run.DurationMS = Int64(0) /\ run.FinishedAt = NoTime]_vars

\* An attempt and an event are stored for a run that is still as StartRun
\* made it.
C35_Witness ==
    /\ \E c \in Finished : c.op \in {"RecordPromptAttempt", "RecordRunEvent"} /\ c.code = OK
    /\ runs # <<>>
    /\ AttemptsOf(runs[1].ID) # <<>>
    /\ \E i \in 1..Len(runEvents) : runEvents[i].RunID = runs[1].ID
    /\ runs[1].Status = <<"running">>
    /\ runs[1].TotalAttempts = 0
    /\ runs[1].FinishedAt = NoTime

----------------------------------------------------------------------------
(* Concurrent SetPolicy calls *)

\* Two requests that set different fields: the attempts of a run, and its
\* tokens.
DisjointPolicyRequests ==
    {LimitsRequest(Nil, <<1>>, Nil, Nil), LimitsRequest(Nil, Nil, <<3>>, Nil)}

NextPolicyRace ==
    \/ \E p \in ProcIds, req \in DisjointPolicyRequests : Begin(p, "SetPolicy", req)
    \/ \E p \in ProcIds : ProcStep(p)
    \/ Tick

SpecPolicyRace == Init /\ [][NextPolicyRace]_vars

\* C36: once concurrent SetPolicy calls that set different fields have all
\* returned successfully, the stored policy has the values of each of them.
C36_DisjointUpdatesBothKept ==
    (/\ \A p \in ProcIds :
            procs[p].op = "SetPolicy" /\ procs[p].pc = "done" /\ procs[p].code = OK
     /\ \A p, q \in ProcIds :
            p # q => \A name \in PolicyFields :
                         ~(IsSet(procs[p].req[name]) /\ IsSet(procs[q].req[name])))
    => \A p \in ProcIds : \A name \in PolicyFields :
           IsSet(procs[p].req[name]) => policy[name] = Requested(procs[p].req, name)

----------------------------------------------------------------------------
(* How an invocation that reserved a key can end *)

\* Line 805 when the handler panics: the panic leaves the interceptor, which
\* has no deferred call, and is answered by the Recovery stage.
HandlerPanics(c) ==
    /\ calls[c].pc = "handler"
    /\ calls' = [calls EXCEPT ![c] = [@ EXCEPT !.pc = "done", !.ranHandler = TRUE,
                                              !.code = CodeInternal,
                                              !.response = NoResponse]]
    /\ UNCHANGED <<idempotency, tasks, nextId, now, hubVars, edgeVars>>

\* Lines 815-817 when the store fails to complete the key (the UPDATE of
\* PostgresStore.CompleteIdempotencyKey returns an error).
CompleteFails(c) ==
    /\ calls[c].pc = "handled"
    /\ calls[c].reserved
    /\ calls[c].code = OK
    /\ encodeIdempotentResponse(calls[c].response).err = OK
    /\ calls' = [calls EXCEPT ![c] = [@ EXCEPT !.pc = "done", !.code = CodeInternal,
                                              !.response = NoResponse]]
    /\ UNCHANGED <<idempotency, tasks, nextId, now, hubVars, edgeVars>>

NextTerminate ==
    \/ \E c \in CallIds, req \in IdemRequests : Arrive(c, req)
    \/ \E c \in CallIds : Handle(c)
    \/ \E c \in CallIds : HandlerPanics(c)
    \/ \E c \in CallIds : Finish(c)
    \/ \E c \in CallIds : CompleteFails(c)

SpecTerminate == Init /\ [][NextTerminate]_vars

\* The invocations that hold a record: they reserved it and have not ended.
HeldBy(key) ==
    {c \in CallIds :
        /\ calls[c].reserved
        /\ calls[c].pc \in {"handler", "handled"}
        /\ fileIdempotencyRecordKey(
               calls[c].req.method,
               normalizeIdempotencyToken(extractIdempotencyKey(calls[c].req))) = key}

\* C37: a record that is not completed belongs to an invocation that has
\* not ended: once the invocation that reserved a key has ended, however it
\* ended, the record is completed or gone.
C37_NoOrphanReservation ==
    \A key \in DOMAIN idempotency : ~idempotency[key].Completed => HeldBy(key) # {}

----------------------------------------------------------------------------
(* What a refused attempt leaves behind *)

\* C38: a RecordPromptAttempt that returns an error stores no attempt and
\* no run event.
C38_RefusalStoresNothing ==
    [][\A c \in Answers :
          (c.op = "RecordPromptAttempt" /\ c.code # OK) =>
              /\ c.wrote.attempts = <<>>
              /\ c.wrote.runEvents = <<>>]_vars

----------------------------------------------------------------------------
(* Requests the Auth stage refuses, and the rate limiter *)

\* CreateTask "a" without idempotency key, sent with no credential, with a
\* text that is no credential, with the key that lacks tasks:write, and
\* with the key that has every scope.
GateRequests ==
    {[payload |-> IdemRequest("CreateTask", <<"a">>, <<>>, <<>>, <<>>), md |-> md] :
        md \in {Metadata(<<>>, <<>>), Metadata(<<"wrong">>, <<>>),
                Metadata(<<"key-telemetry">>, <<>>), Metadata(<<"key-full">>, <<>>)}}

NextGate ==
    \/ \E c \in CallIds, r \in GateRequests : Enter(c, r.payload, r.md, ChainPeer)
    \/ Stages
    \/ \E c \in CallIds : Handle(c)
    \/ \E c \in CallIds : Finish(c)
    \/ KeyStoreOutage
    \/ AuthTick

SpecGate == InitChain /\ [][NextGate]_vars

\* The step is the answer of the Auth stage to the request, which has no
\* credential, an invalid one, one without the scope of the method, or
\* meets a failing key store.
RefusedByAuth(c) ==
    /\ calls[c].pc = "auth" /\ calls'[c] # calls[c]
    /\ ~AuthUnaryInterceptor(auth, calls[c].req.method, calls[c].ctx.md, nowSeconds).next

\* C39: a request that the Auth stage refuses has not been before the rate
\* limiter and goes no further: the limiter is as it was, with every
\* bucket and its tokens, and the request is answered with the status of
\* the Auth stage, never with ResourceExhausted.
C39_RefusedRequestsSpareTheLimiter ==
    [][\A c \in CallIds :
          RefusedByAuth(c) =>
              /\ calls[c].ctx.at = 0
              /\ limiter' = limiter
              /\ passed' = passed
              /\ calls'[c].pc = "done"
              /\ calls'[c].code =
                     AuthUnaryInterceptor(auth, calls[c].req.method, calls[c].ctx.md,
                                          nowSeconds).code
              /\ calls'[c].code # GrpcResourceExhausted]_vars

\* A request without credential has been refused while the bucket of an
\* accepted caller is empty.
C39_Witness ==
    /\ edge.stage = "auth"
    /\ edge.md = Metadata(<<>>, <<>>)
    /\ calls[edge.call].code = GrpcUnauthenticated
    /\ \E id \in DOMAIN limiter.buckets : limiter.buckets[id].tokens < OneToken

----------------------------------------------------------------------------
(* The buckets after each Allow call *)

\* C40: under a limiter whose bursts are of one token or more, after every
\* Allow call each stored bucket has between 0 and burst tokens and a
\* last_refill not after its last_seen, no bucket is left whose last_seen is
\* more than the TTL before the time of the call, and a call that is refused
\* has set last_seen of its bucket to its time and has taken no token from
\* it.
C40_BucketsStayWellFormed ==
    [][(/\ limiter.config.AuthenticatedBurst >= OneToken
        /\ limiter.config.UnauthenticatedBurst >= OneToken
        /\ (edge' # edge \/ limiter' # limiter)) =>
          /\ \A id \in DOMAIN limiter'.buckets :
                 /\ 0 <= limiter'.buckets[id].tokens
                 /\ limiter'.buckets[id].tokens <= BurstOf(id)
                 /\ limiter'.buckets[id].lastRefill <= limiter'.buckets[id].lastSeen
                 /\ ~(edge'.at - limiter'.buckets[id].lastSeen > limiter.config.BucketTTL)
          /\ ~edge'.next =>
                 /\ edge'.identifier \in DOMAIN limiter.buckets
                 /\ limiter'.buckets[edge'.identifier].lastSeen = edge'.at
                 /\ limiter'.buckets[edge'.identifier].tokens
                        >= limiter.buckets[edge'.identifier].tokens]_vars

====
